---- MODULE Spec2Model ----
(***************************************************************************)
(* Model of the per-(subject, stimulus) core of datapipeline.py:           *)
(* janela_exploracao, rotular_ivt, segmentos_por_label, dispersao_area_bb  *)
(* and metricas_paciente_por_estimulo.                                     *)
(*                                                                         *)
(* Number representation (float64 in the source):                          *)
(*   time      integer microseconds (the CSV Timestamp column; t_sec is    *)
(*             Timestamp / 1e6), so 1e-6 s is 1 and 0.100 s is 100000      *)
(*   X, Y      integer hundredths of a coordinate unit                     *)
(*   distance  integer 1e-4 coordinate units, square root rounded down     *)
(*   speed     fixed point with 5 decimals, units/s, as a record           *)
(*             [u |-> whole units, f |-> 0..99999 fraction]                *)
(*   NaN       the empty sequence <<>>; a defined value v is <<v>>         *)
(***************************************************************************)
EXTENDS FiniteSets, Integers, Sequences, TLC

\* ------------------------------------------------------------------ bounds
MaxLen == 3
MaxRows == 4

\* --------------------------------------------------------------- constants
PERCENTIL_LIMIAR_VEL == 85
FIX_MIN_S == 100000
EPS_DT == 1
VEL_MIN == [u |-> 0, f |-> 50000]

NaN == <<>>
Some(v) == <<v>>
IsNaN(o) == o = <<>>
ValOf(o) == o[1]

\* ------------------------------------------------------------ input domain
Keys == {0, 1}
Times == {0, 80000, 180000}
\* two gaze positions 0.05 units apart: over the gaps of Times the speeds
\* 0.2777, 0.5 and 0.625 units/s straddle the velocity floor
Points == {<<10, 10>>, <<14, 13>>}

Sample(k, t, p) == [Key |-> k, t |-> t, X |-> p[1], Y |-> p[2]]

SampleDomain == {Sample(k, t, p) : k \in Keys, t \in Times, p \in Points}

\* the four-sample scenario of the specification's section 8
Scenario ==
  << Sample(0, 0, <<10, 10>>), Sample(0, 50000, <<10, 10>>),
     Sample(0, 300000, <<90, 90>>), Sample(1, 310000, <<91, 90>>) >>

\* further fixed trials.  LongTrial: a fixation run of 0.08 s, a saccade, a
\* fixation run of exactly 0.100 s.  RoundTrial: times off the millisecond
\* grid.  LateZeros: rows arriving out of time order, Key == 0 rows after the
\* first response and a second response.
LongTrial ==
  << Sample(0, 0, <<10, 10>>), Sample(0, 80000, <<10, 10>>),
     Sample(0, 90000, <<90, 90>>), Sample(0, 100000, <<91, 90>>),
     Sample(0, 200000, <<91, 90>>) >>

RoundTrial ==
  << Sample(0, 0, <<10, 10>>), Sample(0, 123456, <<10, 10>>),
     Sample(0, 123460, <<90, 90>>) >>

LateZeros ==
  << Sample(0, 200000, <<90, 90>>), Sample(2, 100000, <<10, 10>>),
     Sample(0, 0, <<10, 10>>), Sample(3, 300000, <<91, 90>>) >>

\* a trial sampled every 40 ms: the gaze rests, jumps once (sample 5), rests,
\* jumps twice in a row (samples 10 and 11) and rests until the response
Longe == <<90, 90>>
Perto == <<10, 10>>
PosSacadas ==
  << Perto, Perto, Perto, Perto, Longe, Longe, Longe, Longe, Longe,
     Perto, Longe, Longe, Longe, Longe, Longe >>
TrialSacadas ==
  [i \in 1..16 |->
     IF i = 16 THEN Sample(1, 600000, Longe)
     ELSE Sample(0, (i - 1) * 40000, PosSacadas[i])]

FixedInputs == {Scenario, LongTrial, RoundTrial, LateZeros, TrialSacadas}

\* rows reach the core in time order (limpar_e_outliers sorts by subject and
\* time); repeated timestamps are kept in the domain, and the fixed trials
\* add an unsorted arrival
TimeOrdered(s) == \A i \in 1..(Len(s) - 1) : s[i].t <= s[i + 1].t

Inputs ==
  UNION {{s \in [1..n -> SampleDomain] : TimeOrdered(s)} : n \in 0..MaxLen}
    \cup FixedInputs

\* --------------------------------------------------------- fixed point
FixZero == [u |-> 0, f |-> 0]
FixNorm(u, f) == [u |-> u + (f \div 100000), f |-> f % 100000]
FixLE(a, b) == a.u < b.u \/ (a.u = b.u /\ a.f <= b.f)
FixLT(a, b) == a.u < b.u \/ (a.u = b.u /\ a.f < b.f)
FixMax(a, b) == IF FixLE(a, b) THEN b ELSE a
FixAdd(a, b) == FixNorm(a.u + b.u, a.f + b.f)
\* a - b for b <= a
FixSub(a, b) ==
  IF a.f >= b.f THEN [u |-> a.u - b.u, f |-> a.f - b.f]
  ELSE [u |-> a.u - b.u - 1, f |-> a.f + 100000 - b.f]
\* floor(a * k / 100) for 0 <= k < 100
FixScale(a, k) ==
  LET uk == a.u * k
      q == uk \div 100
      r == uk % 100
  IN FixNorm(q, (r * 100000 + a.f * k) \div 100)

\* ------------------------------------------------------ numeric helpers
RECURSIVE ISqrtIter(_, _, _)
ISqrtIter(v, lo, hi) ==
  IF lo = hi THEN lo
  ELSE LET mid == (lo + hi + 1) \div 2
       IN IF mid * mid <= v THEN ISqrtIter(v, mid, hi)
          ELSE ISqrtIter(v, lo, mid - 1)

\* floor of the square root
ISqrt(v) == ISqrtIter(v, 0, 46340)

\* np.sqrt(dx**2 + dy**2), dx and dy in hundredths, result in 1e-4 units
Dist(dx, dy) == ISqrt((dx * dx + dy * dy) * 10000)

\* dist / dt in units/s with 5 decimals: dist in 1e-4 units, dt in microseconds
FixDiv(dist, dt) ==
  LET n == dist * 100
      r == n % dt
      d1 == (r * 100) \div dt
      r1 == (r * 100) % dt
      d2 == (r1 * 1000) \div dt
  IN [u |-> n \div dt, f |-> d1 * 1000 + d2]

\* round(num / den) to the nearest integer, ties to even (Python's round)
RoundHalfEven(num, den) ==
  LET q == num \div den
      r == num % den
  IN IF 2 * r < den THEN q
     ELSE IF 2 * r > den THEN q + 1
     ELSE IF q % 2 = 0 THEN q ELSE q + 1

Range(s) == {s[i] : i \in DOMAIN s}

RECURSIVE SumSeq(_)
SumSeq(s) == IF s = <<>> THEN 0 ELSE Head(s) + SumSeq(Tail(s))

SetMin(S) == CHOOSE m \in S : \A x \in S : m <= x
SetMax(S) == CHOOSE m \in S : \A x \in S : m >= x

\* ------------------------------------------ sort_values("t_sec") + reset_index
RemoveAt(s, i) == SubSeq(s, 1, i - 1) \o SubSeq(s, i + 1, Len(s))

\* every time-ascending arrangement of the rows: the default sort kind
\* (quicksort) leaves the relative order of rows with equal t_sec unspecified
RECURSIVE SortedPerms(_)
SortedPerms(df) ==
  IF df = <<>> THEN {<<>>}
  ELSE LET first == {i \in DOMAIN df : \A j \in DOMAIN df : df[i].t <= df[j].t}
       IN UNION {{<<df[i]>> \o r : r \in SortedPerms(RemoveAt(df, i))} : i \in first}

\* --------------------------------------------------------- janela_exploracao
IsKeyZero(r) == r.Key = 0

\* mutant: the window not cut at the first response (index < idx dropped)
JanelaSorted_SemIdx(s) ==
  LET n == Len(s)
      respostas == {i \in 1..n : s[i].Key # 0}
      t0 == s[1].t
      t_resp == IF respostas # {} THEN s[SetMin(respostas)].t ELSE s[n].t
  IN [explore |-> SelectSeq(s, IsKeyZero),
      t0 |-> Some(t0), t_resp |-> Some(t_resp),
      tempo_resposta |-> Some(t_resp - t0),
      resposta |-> IF respostas # {} THEN Some(s[SetMin(respostas)].Key) ELSE NaN]

\* mutant: without a response, t_resp read from the first row (iloc[0])
JanelaSorted_RespPrimeiro(s) ==
  LET n == Len(s)
      respostas == {i \in 1..n : s[i].Key # 0}
      t0 == s[1].t
      t_resp == IF respostas # {} THEN s[SetMin(respostas)].t ELSE s[1].t
  IN [explore |-> IF respostas # {}
                  THEN SelectSeq(SubSeq(s, 1, SetMin(respostas) - 1), IsKeyZero)
                  ELSE SelectSeq(s, IsKeyZero),
      t0 |-> Some(t0), t_resp |-> Some(t_resp),
      tempo_resposta |-> Some(t_resp - t0),
      resposta |-> IF respostas # {} THEN Some(s[SetMin(respostas)].Key) ELSE NaN]

\* lines 336-356, applied to the sorted, re-indexed frame
JanelaSorted(s) ==
  LET n == Len(s)
      respostas == {i \in 1..n : s[i].Key # 0}
      t0 == s[1].t
  IN IF respostas # {}
     THEN LET idx == SetMin(respostas)
              t_resp == s[idx].t
          IN [explore |-> SelectSeq(SubSeq(s, 1, idx - 1), IsKeyZero),
              t0 |-> Some(t0), t_resp |-> Some(t_resp),
              tempo_resposta |-> Some(t_resp - t0),
              resposta |-> Some(s[idx].Key)]
     ELSE LET t_resp == s[n].t
          IN [explore |-> SelectSeq(s, IsKeyZero),
              t0 |-> Some(t0), t_resp |-> Some(t_resp),
              tempo_resposta |-> Some(t_resp - t0),
              resposta |-> NaN]

\* mutant: zeros in place of NaN for the empty frame
JanelaResults_Zeros(df) ==
  IF df = <<>>
  THEN {[explore |-> df, t0 |-> Some(0), t_resp |-> Some(0),
         tempo_resposta |-> Some(0), resposta |-> NaN]}
  ELSE {JanelaSorted(s) : s \in SortedPerms(df)}

\* the possible results of janela_exploracao(df_pac)
JanelaResults(df) ==
  IF df = <<>>
  THEN {[explore |-> df, t0 |-> NaN, t_resp |-> NaN,
         tempo_resposta |-> NaN, resposta |-> NaN]}
  ELSE {JanelaSorted(s) : s \in SortedPerms(df)}

\* --------------------------------------------------------------- rotular_ivt
\* lines 385-387: fillna(0.0), replace(0, 1e-6), max(x, 1e-6)
DtClampEm(d, eps) ==
  LET a == IF d = 0 THEN eps ELSE d
  IN IF a > eps THEN a ELSE eps

\* mutant: the delta left as diff() and fillna(0.0) give it
DtClamp_Bruto(d) == d

\* the same with times in microseconds
DtClamp(d) == DtClampEm(d, EPS_DT)

\* np.inf
Inf == [inf |-> TRUE]

\* line 390: the float division; x / 0 is inf and 0 / 0 is NaN
Quociente(dist, dt) ==
  IF dt = 0 THEN (IF dist = 0 THEN NaN ELSE Inf) ELSE FixDiv(dist, dt)

\* lines 393-394: replace([np.inf, -np.inf], 0.0), fillna(0.0)
Coagir(v) == IF v = Inf \/ v = NaN THEN FixZero ELSE v

\* lines 390-394: the division, then inf and NaN coerced to 0
SpeedOf(dx, dy, dt) == Coagir(Quociente(Dist(dx, dy), dt))

\* ascending sort of a sequence of speeds (np.nanpercentile partitions a copy)
RECURSIVE FixInsert(_, _)
FixInsert(v, s) ==
  IF s = <<>> THEN <<v>>
  ELSE IF FixLE(v, Head(s)) THEN <<v>> \o s
  ELSE <<Head(s)>> \o FixInsert(v, Tail(s))

RECURSIVE FixSort(_)
FixSort(s) == IF s = <<>> THEN <<>> ELSE FixInsert(Head(s), FixSort(Tail(s)))

\* np.nanpercentile(values, q), linear interpolation between the two order
\* statistics around the virtual index q/100 * (n - 1)
Percentile(values, q) ==
  LET srt == FixSort(values)
      n == Len(values)
      pos == q * (n - 1)
      lo == pos \div 100
      k == pos % 100
  IN IF k = 0 THEN srt[lo + 1]
     ELSE FixAdd(srt[lo + 1], FixScale(FixSub(srt[lo + 2], srt[lo + 1]), k))

FixSeqMax(s) == CHOOSE m \in Range(s) : \A x \in Range(s) : FixLE(x, m)

\* mutant: the percentile without the velocity floor
Limiar_SemPiso(speeds) ==
  IF FixLT(FixZero, FixSeqMax(speeds))
  THEN Percentile(speeds, PERCENTIL_LIMIAR_VEL)
  ELSE VEL_MIN

\* mutant: the maximum speed in place of the percentile
Limiar_Max(speeds) ==
  IF FixLT(FixZero, FixSeqMax(speeds))
  THEN FixMax(FixSeqMax(speeds), VEL_MIN)
  ELSE VEL_MIN

\* mutant: the fixed velocity floor as the threshold, without the percentile
Limiar_SoPiso(speeds) == VEL_MIN

\* lines 401-406
Limiar(speeds) ==
  IF FixLT(FixZero, FixSeqMax(speeds))
  THEN FixMax(Percentile(speeds, PERCENTIL_LIMIAR_VEL), VEL_MIN)
  ELSE VEL_MIN

\* mutant: a speed equal to the threshold labelled saccade
Classificar_Estrito(speed, vt) == IF FixLT(speed, vt) THEN "fix" ELSE "sac"

\* line 409
Classificar(speed, vt) == IF FixLE(speed, vt) THEN "fix" ELSE "sac"

\* mutant: the first row not counted as a change, ids start at 0
SegIds_Zero(label) ==
  [i \in DOMAIN label |->
     Cardinality({j \in 2..i : label[j] # label[j - 1]})]

\* mutant: a new segment id at every row, whether the label changed or not
SegIds_PorAmostra(label) == [i \in DOMAIN label |-> i]

\* line 412: (label != label.shift(1)).cumsum()
SegIds(label) ==
  [i \in DOMAIN label |->
     Cardinality({j \in 1..i : j = 1 \/ label[j] # label[j - 1]})]

Labelled(r, dx, dy, dt, speed, label, seg_id) ==
  [Key |-> r.Key, t |-> r.t, X |-> r.X, Y |-> r.Y, dx |-> dx, dy |-> dy,
   dt |-> dt, speed |-> speed, label |-> label, seg_id |-> seg_id]

\* lines 366-374
RotularDegenerado(explore) ==
  [ivt |-> [i \in DOMAIN explore |->
              Labelled(explore[i], 0, 0, 0, FixZero, "fix", 1)],
   vt |-> VEL_MIN]

\* lines 378-414, applied to the sorted, re-indexed window
RotularSorted(s) ==
  LET n == Len(s)
      dx == [i \in 1..n |-> IF i = 1 THEN 0 ELSE s[i].X - s[i - 1].X]
      dy == [i \in 1..n |-> IF i = 1 THEN 0 ELSE s[i].Y - s[i - 1].Y]
      dt == [i \in 1..n |-> DtClamp(IF i = 1 THEN 0 ELSE s[i].t - s[i - 1].t)]
      speed == [i \in 1..n |-> SpeedOf(dx[i], dy[i], dt[i])]
      vt == Limiar(speed)
      label == [i \in 1..n |-> Classificar(speed[i], vt)]
      seg_id == SegIds(label)
  IN [ivt |-> [i \in 1..n |->
                 Labelled(s[i], dx[i], dy[i], dt[i], speed[i], label[i], seg_id[i])],
      vt |-> vt]

\* mutant: the degenerate guard taken as len(explore) < 2
RotularResults_Lt2(explore) ==
  IF Len(explore) < 2 THEN {RotularDegenerado(explore)}
  ELSE {RotularSorted(s) : s \in SortedPerms(explore)}

\* the possible results of rotular_ivt(explore)
RotularResults(explore) ==
  IF Len(explore) < 3 THEN {RotularDegenerado(explore)}
  ELSE {RotularSorted(s) : s \in SortedPerms(explore)}

\* ------------------------------------------------------- segmentos_por_label
LabelRank(l) == IF l = "fix" THEN 0 ELSE 1

\* groupby(["seg_id", "label"]) sorts its keys: seg_id first, then label
KeyBefore(a, b) ==
  a[1] < b[1] \/ (a[1] = b[1] /\ LabelRank(a[2]) < LabelRank(b[2]))

GroupKeys(ivt) == {<<ivt[i].seg_id, ivt[i].label>> : i \in DOMAIN ivt}

\* the rows of one group, in arrival order
GroupRows(ivt, key) ==
  LET InGroup(r) == r.seg_id = key[1] /\ r.label = key[2]
  IN SelectSeq(ivt, InGroup)

\* mutant: n aggregated with "nunique" in place of "size"
Agregar_Nunique(key, rows) ==
  LET t_start == SetMin({rows[i].t : i \in DOMAIN rows})
      t_end == SetMax({rows[i].t : i \in DOMAIN rows})
  IN [seg_id |-> key[1], label |-> key[2],
      t_start |-> t_start, t_end |-> t_end,
      n |-> Cardinality({rows[i].t : i \in DOMAIN rows}),
      x_start |-> rows[1].X, y_start |-> rows[1].Y,
      x_end |-> rows[Len(rows)].X, y_end |-> rows[Len(rows)].Y,
      dur |-> t_end - t_start]

\* mutant: the end coordinates aggregated with "first" in place of "last"
Agregar_FimPrimeiro(key, rows) ==
  LET t_start == SetMin({rows[i].t : i \in DOMAIN rows})
      t_end == SetMax({rows[i].t : i \in DOMAIN rows})
  IN [seg_id |-> key[1], label |-> key[2],
      t_start |-> t_start, t_end |-> t_end, n |-> Len(rows),
      x_start |-> rows[1].X, y_start |-> rows[1].Y,
      x_end |-> rows[1].X, y_end |-> rows[1].Y,
      dur |-> t_end - t_start]

\* lines 427-437: the aggregation of one group
Agregar(key, rows) ==
  LET t_start == SetMin({rows[i].t : i \in DOMAIN rows})
      t_end == SetMax({rows[i].t : i \in DOMAIN rows})
  IN [seg_id |-> key[1], label |-> key[2],
      t_start |-> t_start, t_end |-> t_end, n |-> Len(rows),
      x_start |-> rows[1].X, y_start |-> rows[1].Y,
      x_end |-> rows[Len(rows)].X, y_end |-> rows[Len(rows)].Y,
      dur |-> t_end - t_start]

\* lines 417-438
SegmentosPorLabelOp(ivt) ==
  LET keys == GroupKeys(ivt)
      m == Cardinality(keys)
      KeyAt(i) == CHOOSE k \in keys :
                    Cardinality({o \in keys : KeyBefore(o, k)}) = i - 1
  IN [i \in 1..m |-> Agregar(KeyAt(i), GroupRows(ivt, KeyAt(i)))]

\* --------------------------------------------------------- dispersao_area_bb
\* lines 441-451, in 1e-4 square units
DispersaoAreaBB(explore) ==
  IF Len(explore) < 2 THEN 0
  ELSE LET xs == {explore[i].X : i \in DOMAIN explore}
           ys == {explore[i].Y : i \in DOMAIN explore}
       IN (SetMax(xs) - SetMin(xs)) * (SetMax(ys) - SetMin(ys))

\* -------------------------------------------- metricas_paciente_por_estimulo
\* mutant: the duration floor taken as strict
IsFixValida_Estrito(g) == g.label = "fix" /\ g.dur > FIX_MIN_S

\* line 630
IsFixValida(g) == g.label = "fix" /\ g.dur >= FIX_MIN_S

\* mutant: the saccades filtered by duration as the fixations are
IsSac_ComDuracao(g) == g.label = "sac" /\ g.dur > 0

\* line 631
IsSac(g) == g.label = "sac"

Durs(segs) == [i \in DOMAIN segs |-> segs[i].dur]

\* round(t_total, 3): microseconds to milliseconds
Round3(t) == RoundHalfEven(t, 1000)
\* round(float(dur.mean()), 4): mean of microsecond durations, in 1e-4 s
RoundMean4(durs) == RoundHalfEven(SumSeq(durs), Len(durs) * 100)
\* round(vt, 4) of a 5-decimal speed
FixRound4(a) == FixNorm(a.u, RoundHalfEven(a.f, 10) * 10)
\* round(disp, 6): 1e-4 square units to 1e-6 square units
Round6(disp) == RoundHalfEven(disp * 100, 1)

\* lines 603-612
MetsEntradaVazia ==
  [resposta |-> NaN, tempo_resposta_s |-> NaN, n_sacadas |-> 0,
   tempo_medio_sacada_s |-> NaN, n_fixacoes |-> 0,
   duracao_media_fix_s |-> NaN, dispersao_area |-> 0, limiar_vt |-> NaN]

\* line 619 and line 636
TempoRespostaS(t_total) == IF IsNaN(t_total) THEN NaN ELSE Some(Round3(ValOf(t_total)))

\* lines 617-626
MetsJanelaVazia(j) ==
  [resposta |-> j.resposta, tempo_resposta_s |-> TempoRespostaS(j.tempo_resposta),
   n_sacadas |-> 0, tempo_medio_sacada_s |-> NaN, n_fixacoes |-> 0,
   duracao_media_fix_s |-> NaN, dispersao_area |-> 0, limiar_vt |-> NaN]

\* mutant: the threshold reported without rounding
LimiarVt_SemRound(vt) == Some(vt)

\* line 642
LimiarVt(vt) == Some(FixRound4(vt))

\* mutant: a missing mean reported as 0 in place of NaN
MetsCompletas_ZeroMedia(j, vt, segs) ==
  LET fix == SelectSeq(segs, IsFixValida)
      sac == SelectSeq(segs, IsSac)
  IN [resposta |-> j.resposta,
      tempo_resposta_s |-> TempoRespostaS(j.tempo_resposta),
      n_sacadas |-> Len(sac),
      tempo_medio_sacada_s |->
        IF Len(sac) # 0 THEN Some(RoundMean4(Durs(sac))) ELSE Some(0),
      n_fixacoes |-> Len(fix),
      duracao_media_fix_s |->
        IF Len(fix) # 0 THEN Some(RoundMean4(Durs(fix))) ELSE Some(0),
      dispersao_area |-> Round6(DispersaoAreaBB(j.explore)),
      limiar_vt |-> LimiarVt(vt)]

\* lines 630-643
MetsCompletas(j, vt, segs) ==
  LET fix == SelectSeq(segs, IsFixValida)
      sac == SelectSeq(segs, IsSac)
  IN [resposta |-> j.resposta,
      tempo_resposta_s |-> TempoRespostaS(j.tempo_resposta),
      n_sacadas |-> Len(sac),
      tempo_medio_sacada_s |->
        IF Len(sac) # 0 THEN Some(RoundMean4(Durs(sac))) ELSE NaN,
      n_fixacoes |-> Len(fix),
      duracao_media_fix_s |->
        IF Len(fix) # 0 THEN Some(RoundMean4(Durs(fix))) ELSE NaN,
      dispersao_area |-> Round6(DispersaoAreaBB(j.explore)),
      limiar_vt |-> LimiarVt(vt)]

\* lines 598-643: what metricas_paciente_por_estimulo(df) can return
MetricasResults(df) ==
  IF df = <<>> THEN {MetsEntradaVazia}
  ELSE UNION {IF j.explore = <<>> THEN {MetsJanelaVazia(j)}
              ELSE {MetsCompletas(j, r.vt, SegmentosPorLabelOp(r.ivt)) :
                      r \in RotularResults(j.explore)} :
              j \in JanelaResults(df)}

\* ------------------------------------------------------------------- state
VARIABLES
  df_pac_est,      \* the rows of one (subject, stimulus) unit, in arrival order
  pc,              \* "input", then the function that returned last
  explore, t0, t_resp, tempo_resposta, resposta,   \* janela_exploracao's result
  explore_ivt, vt, \* rotular_ivt's result
  seg,             \* segmentos_por_label's result
  mets             \* metricas_paciente_por_estimulo's result

\* the table-level run: main's df_ctrl through cleaning and normalization
VARIABLES
  tabela,          \* the loaded group table
  lpc,             \* "input", then the function that returned last
  ordenado,        \* limpar_e_outliers: after dropout removal and sort
  sem_outliers,    \* limpar_e_outliers: after the IQR filter
  limpo,           \* limpar_e_outliers's result
  norm,            \* normalizar_coordenadas's result
  janela_norm,     \* one exploration window of the normalized table
  disp             \* dispersao_area_bb of that window

VARIABLES
  mets_ctrl, mets_afa,   \* the two groups' metric tables
  scipy,           \* "ok", "ausente" (SCIPY_OK false) or "erro" (the call raises)
  epc,             \* "input", then "fim" once estatisticas_inter_grupo returned
  inter,           \* estatisticas_inter_grupo's result
  csv_inter        \* the table written to inter_grupo_estatisticas_por_estimulo.csv

VARIABLES
  pasta,           \* the folder: NaN when it does not exist, else its files by name
  cpc,             \* "input", "arquivos" inside the loop, "fim" after the return
  i_arq,           \* index of the next file of the loop
  dfs,             \* the tables of the files accepted so far
  relatados,       \* the files reported as skipped, with the message kind
  resultado        \* carregar_pasta_csv's result

VARIABLES
  df_grupo,        \* the group's cleaned table, normalized once the run has started
  gpc,             \* position inside processar_grupo_segmentado
  pacientes,       \* subjects still to be processed individually
  pac_estimulos,   \* stimuli still to be processed for the current subject
  pac_rows,        \* processar_paciente_individual: mets_rows
  mets_individuais,
  estimulos,       \* stimuli still to be processed in the group pass
  mets_rows,       \* processar_grupo_segmentado: mets_rows
  mets_all,        \* the returned metrics table
  eventos          \* what the run has done so far, in order

VARIABLES
  t_ant,           \* time of the preceding sample of the sorted window, NaN for the first
  t_atual,         \* time of the sample
  dpc,             \* "input", then "fim" once the delta is computed
  dt_usado         \* the delta the speed is divided by

unitVars == <<df_pac_est, pc, explore, t0, t_resp, tempo_resposta, resposta,
              explore_ivt, vt, seg, mets>>

limpVars == <<tabela, lpc, ordenado, sem_outliers, limpo, norm, janela_norm, disp>>

interVars == <<mets_ctrl, mets_afa, scipy, epc, inter, csv_inter>>

cargaVars == <<pasta, cpc, i_arq, dfs, relatados, resultado>>

grupoVars == <<df_grupo, gpc, pacientes, pac_estimulos, pac_rows, mets_individuais,
               estimulos, mets_rows, mets_all, eventos>>

dtVars == <<t_ant, t_atual, dpc, dt_usado>>

vars == <<unitVars, limpVars, interVars, cargaVars, grupoVars, dtVars>>

\* the variables the per-unit functions never touch
foraDaUnidade == <<limpVars, interVars, cargaVars, grupoVars, dtVars>>

\* the variables the table-level functions never touch
foraDaLimpeza == <<unitVars, interVars, cargaVars, grupoVars, dtVars>>

\* the variables estatisticas_inter_grupo never touches
foraDoInter == <<unitVars, limpVars, cargaVars, grupoVars, dtVars>>

\* the variables carregar_pasta_csv never touches
foraDaCarga == <<unitVars, limpVars, interVars, grupoVars, dtVars>>

\* the variables the delta step of rotular_ivt never touches
foraDoDt == <<unitVars, limpVars, interVars, cargaVars, grupoVars>>

\* the variables processar_grupo_segmentado never touches
foraDoGrupo == <<unitVars, limpVars, interVars, cargaVars, dtVars>>

janelaVars == <<explore, t0, t_resp, tempo_resposta, resposta>>

InitUnidade ==
  /\ pc = "input"
  /\ explore = <<>>
  /\ t0 = NaN
  /\ t_resp = NaN
  /\ tempo_resposta = NaN
  /\ resposta = NaN
  /\ explore_ivt = <<>>
  /\ vt = NaN
  /\ seg = <<>>
  /\ mets = NaN

InitLimpeza ==
  /\ lpc = "input"
  /\ ordenado = <<>>
  /\ sem_outliers = <<>>
  /\ limpo = <<>>
  /\ norm = <<>>
  /\ janela_norm = <<>>
  /\ disp = NaN

InitInter ==
  /\ epc = "input"
  /\ inter = <<>>
  /\ csv_inter = NaN

InitCarga ==
  /\ cpc = "input"
  /\ i_arq = 1
  /\ dfs = <<>>
  /\ relatados = <<>>
  /\ resultado = NaN

InitGrupo ==
  /\ gpc = "input"
  /\ pacientes = <<>>
  /\ pac_estimulos = <<>>
  /\ pac_rows = <<>>
  /\ mets_individuais = <<>>
  /\ estimulos = <<>>
  /\ mets_rows = <<>>
  /\ mets_all = NaN
  /\ eventos = <<>>

\* nothing loaded, cleaned, compared or processed
UnidadeParada == df_pac_est = <<>> /\ InitUnidade
LimpezaParada == tabela = <<>> /\ InitLimpeza
InterParado == mets_ctrl = <<>> /\ mets_afa = <<>> /\ scipy = "ok" /\ InitInter
CargaParada == pasta = NaN /\ InitCarga
GrupoParado == df_grupo = <<>> /\ InitGrupo
DtParado == t_ant = NaN /\ t_atual = 0 /\ dpc = "input" /\ dt_usado = NaN

Init ==
  /\ df_pac_est \in Inputs
  /\ InitUnidade
  /\ LimpezaParada
  /\ InterParado
  /\ CargaParada
  /\ GrupoParado
  /\ DtParado

SetJanela(j) ==
  /\ explore' = j.explore
  /\ t0' = j.t0
  /\ t_resp' = j.t_resp
  /\ tempo_resposta' = j.tempo_resposta
  /\ resposta' = j.resposta

\* a call of janela_exploracao(df_pac_est)
JanelaExploracao ==
  /\ pc = "input"
  /\ UNCHANGED foraDaUnidade
  /\ \E j \in JanelaResults(df_pac_est) : SetJanela(j)
  /\ pc' = "janela"
  /\ UNCHANGED <<df_pac_est, explore_ivt, vt, seg, mets>>

\* a call of rotular_ivt(explore) on the window just extracted
RotularIvt ==
  /\ pc = "janela"
  /\ UNCHANGED foraDaUnidade
  /\ \E r \in RotularResults(explore) :
       /\ explore_ivt' = r.ivt
       /\ vt' = Some(r.vt)
  /\ pc' = "ivt"
  /\ UNCHANGED <<df_pac_est, janelaVars, seg, mets>>

\* a call of segmentos_por_label(explore_ivt)
SegmentosPorLabel ==
  /\ pc = "ivt"
  /\ UNCHANGED foraDaUnidade
  /\ seg' = SegmentosPorLabelOp(explore_ivt)
  /\ pc' = "seg"
  /\ UNCHANGED <<df_pac_est, janelaVars, explore_ivt, vt, mets>>

\* a call of metricas_paciente_por_estimulo(df_pac_est), lines 598-643; the
\* function's locals are recorded in the state
MetricasPacientePorEstimulo ==
  /\ pc = "input"
  /\ UNCHANGED foraDaUnidade
  /\ pc' = "mets"
  /\ UNCHANGED df_pac_est
  /\ IF df_pac_est = <<>>
     THEN /\ mets' = Some(MetsEntradaVazia)
          /\ UNCHANGED <<janelaVars, explore_ivt, vt, seg>>
     ELSE \E j \in JanelaResults(df_pac_est) :
            /\ SetJanela(j)
            /\ IF j.explore = <<>>
               THEN /\ mets' = Some(MetsJanelaVazia(j))
                    /\ UNCHANGED <<explore_ivt, vt, seg>>
               ELSE \E r \in RotularResults(j.explore) :
                      LET segs == SegmentosPorLabelOp(r.ivt)
                      IN /\ explore_ivt' = r.ivt
                         /\ vt' = Some(r.vt)
                         /\ seg' = segs
                         /\ mets' = Some(MetsCompletas(j, r.vt, segs))

Next ==
  \/ JanelaExploracao
  \/ RotularIvt
  \/ SegmentosPorLabel
  \/ MetricasPacientePorEstimulo

Spec == Init /\ [][Next]_vars

TypeOK ==
  /\ pc \in {"input", "janela", "ivt", "seg", "mets"}
  /\ Len(explore_ivt) <= Len(df_pac_est)

\* ------------------------------------------------------------ properties
\* which functions have returned in the current state
JanelaRan == pc # "input" /\ df_pac_est # <<>>
IvtRan == pc \in {"ivt", "seg"} \/ (pc = "mets" /\ explore # <<>>)
SegRan == pc = "seg" \/ (pc = "mets" /\ explore # <<>>)
MetsRan == pc = "mets"

\* C1: a window of fewer than 3 samples is labelled fixation throughout, with
\* dx, dy, dt and speed zero, the single segment id 1, and the threshold is
\* exactly the velocity floor of 0.5 units/s
C1_Degenerado ==
  (IvtRan /\ Len(explore) < 3) =>
    /\ Len(explore_ivt) = Len(explore)
    /\ \A i \in DOMAIN explore_ivt :
         /\ explore_ivt[i].label = "fix"
         /\ explore_ivt[i].dx = 0
         /\ explore_ivt[i].dy = 0
         /\ explore_ivt[i].dt = 0
         /\ explore_ivt[i].speed = [u |-> 0, f |-> 0]
         /\ explore_ivt[i].seg_id = 1
         /\ explore_ivt[i].t = explore[i].t
    /\ vt = <<[u |-> 0, f |-> 50000]>>

C1_Witness ==
  /\ pc = "ivt"
  /\ Len(explore) = 2
  /\ explore[1].X # explore[2].X
  /\ Len(explore_ivt) = 2

\* the k-th smallest of a sequence of speeds, by counting
OrderStat(speeds, k) ==
  CHOOSE v \in Range(speeds) :
    /\ Cardinality({i \in DOMAIN speeds : FixLT(speeds[i], v)}) < k
    /\ Cardinality({i \in DOMAIN speeds : FixLE(speeds[i], v)}) >= k

Speeds == [i \in DOMAIN explore_ivt |-> explore_ivt[i].speed]

\* C2: the threshold is never below the velocity floor; it is the larger of
\* the floor and the 85th percentile of the window's speeds (interpolated
\* between the two order statistics around 0.85 * (n - 1)) when some speed is
\* positive, and the floor itself when every speed is zero
C2_Limiar ==
  (IvtRan /\ explore_ivt # <<>>) =>
    LET n == Len(explore_ivt)
        lo == (85 * (n - 1)) \div 100
        k == (85 * (n - 1)) % 100
        a == OrderStat(Speeds, lo + 1)
        b == OrderStat(Speeds, lo + 2)
        p == FixAdd(a, FixScale(FixSub(b, a), k))
        piso == [u |-> 0, f |-> 50000]
    IN /\ FixLE(piso, ValOf(vt))
       /\ IF \E i \in 1..n : Speeds[i] # FixZero
          THEN ValOf(vt) = (IF FixLE(p, piso) THEN piso ELSE p)
          ELSE ValOf(vt) = piso

C2_Witness ==
  /\ IvtRan
  /\ Len(explore_ivt) >= 3
  /\ FixLT([u |-> 0, f |-> 50000], ValOf(vt))
  /\ \E i \in DOMAIN explore_ivt : FixLT(ValOf(vt), explore_ivt[i].speed)

\* C3: the first sample has segment id 1; from one sample to the next the
\* segment id grows by exactly one when the label changes and stays the same
\* otherwise
C3_SegIds ==
  (IvtRan /\ explore_ivt # <<>>) =>
    /\ explore_ivt[1].seg_id = 1
    /\ \A i \in 1..(Len(explore_ivt) - 1) :
         explore_ivt[i + 1].seg_id =
           explore_ivt[i].seg_id
             + (IF explore_ivt[i + 1].label # explore_ivt[i].label THEN 1 ELSE 0)

C3_Witness ==
  /\ IvtRan
  /\ \E i \in 1..(Len(explore_ivt) - 2) :
       /\ explore_ivt[i].seg_id = 1
       /\ explore_ivt[i + 1].seg_id = 2
       /\ explore_ivt[i + 2].seg_id = 3

\* C4: the segments' sample counts add up to the number of samples of the
\* labelled window
C4_SomaN ==
  SegRan => SumSeq([i \in DOMAIN seg |-> seg[i].n]) = Len(explore_ivt)

C4_Witness ==
  /\ pc = "seg"
  /\ Len(seg) >= 2
  /\ \E i \in DOMAIN seg : seg[i].n >= 2 /\ seg[i].dur = 0

\* the fixation segments of the segment table that last 0.100 s or more
FixContadas == {i \in DOMAIN seg : seg[i].label = "fix" /\ seg[i].dur >= 100000}

SumDur(I) == SumSeq([i \in 1..Len(seg) |-> IF i \in I THEN seg[i].dur ELSE 0])

\* C5: fixation_count and mean_fixation_duration cover exactly the fixation
\* segments lasting 0.100 s or more; a shorter fixation run is left out of
\* both but keeps its fixation label in the segment table
C5_FixMin ==
  (MetsRan /\ explore # <<>>) =>
    /\ ValOf(mets).n_fixacoes = Cardinality(FixContadas)
    /\ ValOf(mets).duracao_media_fix_s =
         (IF FixContadas = {} THEN NaN
          ELSE Some(RoundHalfEven(SumDur(FixContadas),
                                  Cardinality(FixContadas) * 100)))
    /\ \A i \in DOMAIN explore_ivt :
         \E g \in DOMAIN seg :
           /\ seg[g].seg_id = explore_ivt[i].seg_id
           /\ seg[g].label = explore_ivt[i].label

C5_Witness ==
  /\ MetsRan
  /\ \E i \in DOMAIN seg : seg[i].label = "fix" /\ seg[i].dur = 80000
  /\ \E i \in DOMAIN seg : seg[i].label = "fix" /\ seg[i].dur = 100000
  /\ ValOf(mets).n_fixacoes = 1
  /\ ValOf(mets).duracao_media_fix_s = Some(1000)

HasResposta == \E i \in DOMAIN df_pac_est : df_pac_est[i].Key # 0

\* C6: with a first response at position k of the time-sorted rows, t0 is
\* the first row's time, t_response and response_code are row k's time and
\* code, response_time is their difference, and the exploration window is
\* exactly the k - 1 rows before position k
C6_ComResposta ==
  (JanelaRan /\ HasResposta) =>
    \E s \in SortedPerms(df_pac_est) :
      \E k \in DOMAIN s :
        /\ s[k].Key # 0
        /\ \A i \in 1..(k - 1) : s[i].Key = 0
        /\ t0 = Some(s[1].t)
        /\ t_resp = Some(s[k].t)
        /\ resposta = Some(s[k].Key)
        /\ tempo_resposta = Some(s[k].t - s[1].t)
        /\ explore = SubSeq(s, 1, k - 1)

C6_Witness ==
  /\ pc = "janela"
  /\ HasResposta
  /\ Len(explore) >= 1
  /\ Len(explore) < Cardinality({i \in DOMAIN df_pac_est : df_pac_est[i].Key = 0})
  /\ tempo_resposta # Some(0)

\* C7: with no response in a non-empty sequence, t_response is the last
\* (largest) time, response_code is undefined, response_time is last minus
\* first time, and the exploration window is the whole time-sorted sequence
C7_SemResposta ==
  (JanelaRan /\ ~HasResposta) =>
    LET ts == {df_pac_est[i].t : i \in DOMAIN df_pac_est}
    IN /\ t0 = Some(SetMin(ts))
       /\ t_resp = Some(SetMax(ts))
       /\ resposta = NaN
       /\ tempo_resposta = Some(SetMax(ts) - SetMin(ts))
       /\ explore \in SortedPerms(df_pac_est)

C7_Witness ==
  /\ pc = "janela"
  /\ ~HasResposta
  /\ Len(explore) = 3
  /\ tempo_resposta = Some(180000)

\* C8: on an empty sequence janela_exploracao returns (it is enabled), with
\* an empty window and t0, t_response, response_time and response_code all
\* undefined
C8_EntradaVazia ==
  /\ (pc = "input" /\ df_pac_est = <<>>) => ENABLED JanelaExploracao
  /\ (pc = "janela" /\ df_pac_est = <<>>) =>
       /\ explore = <<>>
       /\ t0 = NaN
       /\ t_resp = NaN
       /\ tempo_resposta = NaN
       /\ resposta = NaN

C8_Witness == pc = "janela" /\ df_pac_est = <<>>

\* C9: for the four-sample scenario the window is the first three samples,
\* t0 = 0, t_response = response_time = 0.310 s, response_code = 1, and the
\* labelled window has a fixation segment and a saccade segment
C9_Cenario ==
  (df_pac_est = Scenario) =>
    /\ pc # "input" =>
         /\ explore = SubSeq(Scenario, 1, 3)
         /\ t0 = Some(0)
         /\ t_resp = Some(310000)
         /\ tempo_resposta = Some(310000)
         /\ resposta = Some(1)
    /\ SegRan =>
         /\ \E i \in DOMAIN seg : seg[i].label = "fix"
         /\ \E i \in DOMAIN seg : seg[i].label = "sac"
    /\ MetsRan => ValOf(mets).tempo_resposta_s = Some(310)

C9_Witness ==
  /\ df_pac_est = Scenario
  /\ pc = "seg"
  /\ Len(seg) = 2

\* C10 as stated: for every unit with non-empty input the reported
\* threshold is the classifier's threshold for the unit's window, rounded to
\* 4 decimals, the floor included for windows of fewer than 3 samples
C10_Original ==
  (MetsRan /\ df_pac_est # <<>>) =>
    \E r \in RotularResults(explore) :
      ValOf(mets).limiar_vt = Some(FixRound4(r.vt))

\* C10 amended: for every unit with a non-empty exploration window the
\* reported threshold is the threshold the classifier returned with the
\* window's labels, rounded to 4 decimals (the floor for windows of 1 or 2
\* samples); with an empty exploration window it is undefined
C10_LimiarReportado ==
  (MetsRan /\ df_pac_est # <<>>) =>
    IF explore = <<>>
    THEN ValOf(mets).limiar_vt = NaN
    ELSE /\ \E r \in RotularResults(explore) :
              /\ r.ivt = explore_ivt
              /\ ValOf(mets).limiar_vt =
                   Some(FixNorm(r.vt.u, RoundHalfEven(r.vt.f, 10) * 10))
         /\ Len(explore) < 3 =>
              ValOf(mets).limiar_vt = Some([u |-> 0, f |-> 50000])

C10_Witness ==
  /\ MetsRan
  /\ Len(explore) >= 3
  /\ ValOf(mets).limiar_vt # vt
  /\ ValOf(mets).limiar_vt # Some([u |-> 0, f |-> 50000])

\* C11: in every metrics row the mean saccade duration is undefined exactly
\* when saccade_count is 0, and the mean fixation duration is undefined
\* exactly when fixation_count is 0; a defined mean may be 0
C11_IndefinidoDistinto ==
  MetsRan =>
    /\ IsNaN(ValOf(mets).tempo_medio_sacada_s) <=> (ValOf(mets).n_sacadas = 0)
    /\ IsNaN(ValOf(mets).duracao_media_fix_s) <=> (ValOf(mets).n_fixacoes = 0)
    /\ ValOf(mets).n_sacadas >= 0
    /\ ValOf(mets).n_fixacoes >= 0

C11_Witness ==
  /\ MetsRan
  /\ ValOf(mets).n_sacadas = 1
  /\ ValOf(mets).tempo_medio_sacada_s = Some(0)
  /\ ValOf(mets).n_fixacoes = 0
  /\ ValOf(mets).duracao_media_fix_s = NaN

\* ======================================================================
\* Table-level transforms: limpar_e_outliers and normalizar_coordenadas.
\* A table is a sequence of rows [paciente_id, t, X, Y]; paciente_id is an
\* integer standing for the subject's identifier, X and Y are hundredths.
\* ======================================================================
Row(pid, t, p) == [paciente_id |-> pid, t |-> t, X |-> p[1], Y |-> p[2]]

PacientesDe(df) == {df[i].paciente_id : i \in DOMAIN df}

\* df[df["paciente_id"] == pid], in table order
Grupo(df, pid) ==
  LET DoPaciente(r) == r.paciente_id = pid
  IN SelectSeq(df, DoPaciente)

\* line 270: drop the rows with X == 0 and Y == 0
NaoDropout(r) == ~(r.X = 0 /\ r.Y = 0)

\* line 273: sort_values(["paciente_id", "t_sec"]); a sort on several keys is
\* a stable lexsort, rows with equal keys keep their arrival order
RowBefore(a, b) ==
  a.paciente_id < b.paciente_id \/ (a.paciente_id = b.paciente_id /\ a.t < b.t)

\* each row goes after every earlier row that is not strictly larger: rows
\* with equal keys stay in arrival order
RECURSIVE OrdenarPacT(_)
OrdenarPacT(df) ==
  IF df = <<>> THEN <<>>
  ELSE LET n == Len(df)
           rest == OrdenarPacT(SubSeq(df, 1, n - 1))
       IN LET k == Cardinality({i \in DOMAIN rest : ~RowBefore(df[n], rest[i])})
          IN SubSeq(rest, 1, k) \o <<df[n]>> \o SubSeq(rest, k + 1, Len(rest))

\* ascending sort of integers
RECURSIVE IntInsert(_, _)
IntInsert(v, s) ==
  IF s = <<>> THEN <<v>>
  ELSE IF v <= Head(s) THEN <<v>> \o s
  ELSE <<Head(s)>> \o IntInsert(v, Tail(s))

RECURSIVE IntSort(_)
IntSort(s) == IF s = <<>> THEN <<>> ELSE IntInsert(Head(s), IntSort(Tail(s)))

Coluna(g, col) == [i \in DOMAIN g |-> g[i][col]]

\* Series.quantile(q / 4) times 4, linear interpolation at (q / 4) * (n - 1)
Quantil4(vals, q) ==
  LET srt == IntSort(vals)
      pos == q * (Len(vals) - 1)
      lo == pos \div 4
      k == pos % 4
  IN IF k = 0 THEN 4 * srt[lo + 1]
     ELSE 4 * srt[lo + 1] + k * (srt[lo + 2] - srt[lo + 1])

\* mutant: strict bounds
DentroIqr_Estrito(v, vals) ==
  LET q1 == Quantil4(vals, 1)
      q3 == Quantil4(vals, 3)
      iqr == q3 - q1
  IN 8 * v > 2 * q1 - 3 * iqr /\ 8 * v < 2 * q3 + 3 * iqr

\* lines 279-282, with every term times 8:
\* lo = q1 - 1.5 * iqr, hi = q3 + 1.5 * iqr, lo <= v <= hi
DentroIqr(v, vals) ==
  LET q1 == Quantil4(vals, 1)
      q3 == Quantil4(vals, 3)
      iqr == q3 - q1
  IN 8 * v >= 2 * q1 - 3 * iqr /\ 8 * v <= 2 * q3 + 3 * iqr

\* _iqr_mask(g, col), lines 278-282
IqrMask(g, col) == [i \in DOMAIN g |-> DentroIqr(g[i][col], Coluna(g, col))]

\* position of row i of df inside its subject's group
PosNoGrupo(df, i) ==
  Cardinality({j \in 1..i : df[j].paciente_id = df[i].paciente_id})

\* mutant: the mask computed over the whole table, not per subject
MascaraOutliers_Global(df, col) == IqrMask(df, col)

\* lines 285-297: per subject through groupby when the table has several
\* subjects, over the whole table otherwise; aligned on the table's index
MascaraOutliers(df, col) ==
  IF Cardinality(PacientesDe(df)) > 1
  THEN [i \in DOMAIN df |->
          IqrMask(Grupo(df, df[i].paciente_id), col)[PosNoGrupo(df, i)]]
  ELSE IqrMask(df, col)

\* the rows of df at the positions where keep holds, in order
RECURSIVE Filtrar(_, _)
Filtrar(df, keep) ==
  IF df = <<>> THEN <<>>
  ELSE LET n == Len(df)
           rest == Filtrar(SubSeq(df, 1, n - 1), SubSeq(keep, 1, n - 1))
       IN IF keep[n] THEN Append(rest, df[n]) ELSE rest

\* lines 277-300
FiltrarOutliers(df) ==
  LET mask_x == MascaraOutliers(df, "X")
      mask_y == MascaraOutliers(df, "Y")
  IN Filtrar(df, [i \in DOMAIN df |-> mask_x[i] /\ mask_y[i]])

\* mutant: diff over the whole table whatever the number of subjects
DiffT_Global(df) ==
  [i \in DOMAIN df |-> IF i = 1 THEN NaN ELSE Some(df[i].t - df[i - 1].t)]

\* lines 305-308: t_sec.diff(), per subject when the table has several
DiffT(df) ==
  IF Cardinality(PacientesDe(df)) > 1
  THEN [i \in DOMAIN df |->
          LET prev == {j \in 1..(i - 1) : df[j].paciente_id = df[i].paciente_id}
          IN IF prev = {} THEN NaN ELSE Some(df[i].t - df[SetMax(prev)].t)]
  ELSE [i \in DOMAIN df |-> IF i = 1 THEN NaN ELSE Some(df[i].t - df[i - 1].t)]

\* lines 304-317
RemoverDuplicados(df) ==
  LET dt == DiffT(df)
  IN Filtrar(df, [i \in DOMAIN df |-> dt[i] # Some(0) \/ IsNaN(dt[i])])

\* limpar_e_outliers, lines 260-319, with its intermediate frames
LimparEOutliersOp(df) ==
  IF df = <<>>
  THEN [ordenado |-> df, sem_outliers |-> df, limpo |-> df]
  ELSE LET ord == OrdenarPacT(SelectSeq(df, NaoDropout))
           filt == FiltrarOutliers(ord)
       IN [ordenado |-> ord, sem_outliers |-> filt,
           limpo |-> RemoverDuplicados(filt)]

\* ---------------------------------------------------- normalizar_coordenadas
NORMALIZAR_COORDS == TRUE

\* x_max - x_min > 1e-10: on the hundredths grid a range is 0 or at least 1
MaiorQueEps(range) == range > 0

\* mutant: the shifted value divided by the maximum in place of the range
NormalizarValor_SobreMax(v, vals) ==
  LET lo == SetMin(Range(vals))
      hi == SetMax(Range(vals))
  IN IF MaiorQueEps(hi - lo) THEN ((v - lo) * 100) \div hi ELSE 50

\* mutant: a flat axis mapped to 0 in place of 0.5
NormalizarValor_Zero(v, vals) ==
  LET lo == SetMin(Range(vals))
      hi == SetMax(Range(vals))
  IN IF MaiorQueEps(hi - lo) THEN ((v - lo) * 100) \div (hi - lo) ELSE 0

\* lines 131-143 for one axis: (v - min) / (max - min) in hundredths, rounded
\* down, or the constant 0.5
NormalizarValor(v, vals) ==
  LET lo == SetMin(Range(vals))
      hi == SetMax(Range(vals))
  IN IF MaiorQueEps(hi - lo) THEN ((v - lo) * 100) \div (hi - lo) ELSE 50

\* _normalizar_grupo(g), lines 129-145
NormalizarGrupo(g) ==
  [i \in DOMAIN g |->
     [g[i] EXCEPT !.X = NormalizarValor(g[i].X, Coluna(g, "X")),
                  !.Y = NormalizarValor(g[i].Y, Coluna(g, "Y"))]]

\* mutant: the configuration switch off, coordinates returned as they came
NormalizarCoordenadasOp_Desligado(df) == df

\* mutant: one normalization over the whole table
NormalizarCoordenadasOp_Global(df) ==
  IF ~NORMALIZAR_COORDS \/ df = <<>> THEN df ELSE NormalizarGrupo(df)

\* normalizar_coordenadas, lines 121-152: groupby(...).apply keeps the
\* table's row order (group_keys=False, like-indexed result)
NormalizarCoordenadasOp(df) ==
  IF ~NORMALIZAR_COORDS \/ df = <<>> THEN df
  ELSE IF Cardinality(PacientesDe(df)) > 1
  THEN [i \in DOMAIN df |->
          NormalizarGrupo(Grupo(df, df[i].paciente_id))[PosNoGrupo(df, i)]]
  ELSE NormalizarGrupo(df)

\* ------------------------------------------------- table-level input domain
PacienteIds == {1, 2}
TimesTabela == {0, 80000}
\* raw gaze positions of 1.0 to 9.0 units, outside [0, 1]
PointsTabela == {<<100, 100>>, <<900, 500>>}

RowDomain(pid) == {Row(pid, t, p) : t \in TimesTabela, p \in PointsTabela}

\* carregar_pasta_csv concatenates one file per subject: the rows of a
\* subject are contiguous in the loaded table
TabelasGerais ==
  UNION {UNION {{a \o b : a \in [1..k -> RowDomain(1)],
                          b \in [1..(n - k) -> RowDomain(2)]} : k \in 0..n} :
           n \in 0..MaxRows}

\* fixed tables.  TabDropout: sensor dropouts, a third position on each axis
\* and times in descending order.  TabMisturada: the rows of two subjects
\* interleaved, a triple timestamp, an outlier in subject 1 only.
TabDropout ==
  << Row(1, 80000, <<900, 500>>), Row(1, 80000, <<0, 0>>),
     Row(1, 40000, <<350, 200>>), Row(1, 0, <<100, 100>>),
     Row(1, 0, <<0, 0>>), Row(1, 120000, <<600, 100>>) >>

TabMisturada ==
  << Row(2, 0, <<900, 500>>), Row(1, 0, <<100, 100>>),
     Row(1, 0, <<350, 100>>), Row(2, 0, <<900, 100>>),
     Row(1, 0, <<100, 100>>), Row(1, 80000, <<100, 200>>),
     Row(1, 120000, <<900, 100>>), Row(1, 160000, <<100, 100>>) >>

Tabelas == TabelasGerais \cup {TabDropout, TabMisturada}

\* --------------------------------------------------------- table-level steps
\* a call of limpar_e_outliers(tabela), its intermediate frames recorded
LimparEOutliers ==
  /\ lpc = "input"
  /\ LET r == LimparEOutliersOp(tabela)
     IN /\ ordenado' = r.ordenado
        /\ sem_outliers' = r.sem_outliers
        /\ limpo' = r.limpo
  /\ lpc' = "limpo"
  /\ UNCHANGED <<tabela, norm, janela_norm, disp>>
  /\ UNCHANGED foraDaLimpeza

\* the call of normalizar_coordenadas on the cleaned table (line 744)
NormalizarCoordenadas ==
  /\ lpc = "limpo"
  /\ norm' = NormalizarCoordenadasOp(limpo)
  /\ lpc' = "norm"
  /\ UNCHANGED <<tabela, ordenado, sem_outliers, limpo, janela_norm, disp>>
  /\ UNCHANGED foraDaLimpeza

\* a call of dispersao_area_bb on an exploration window of the normalized
\* table: a run of consecutive rows of one subject
DispersaoAreaBBJanela ==
  /\ lpc = "norm"
  /\ \E pid \in PacienteIds :
       LET g == Grupo(norm, pid)
       IN \E i \in 1..(Len(g) + 1) :
            \E j \in (i - 1)..Len(g) :
              /\ janela_norm' = SubSeq(g, i, j)
              /\ disp' = Some(DispersaoAreaBB(SubSeq(g, i, j)))
  /\ lpc' = "disp"
  /\ UNCHANGED <<tabela, ordenado, sem_outliers, limpo, norm>>
  /\ UNCHANGED foraDaLimpeza

InitTabela ==
  /\ tabela \in Tabelas
  /\ InitLimpeza
  /\ UnidadeParada
  /\ InterParado
  /\ CargaParada
  /\ GrupoParado
  /\ DtParado

NextTabela ==
  \/ LimparEOutliers
  \/ NormalizarCoordenadas
  \/ DispersaoAreaBBJanela

SpecTabela == InitTabela /\ [][NextTabela]_vars

\* ------------------------------------------------- table-level properties
LimpezaRan == lpc # "input"
NormRan == lpc \in {"norm", "disp"}

\* C12: on a window of normalized coordinates the bounding-box area lies in
\* [0, 1] (0..10000 in 1e-4 square units), and it is 0 for a window of fewer
\* than 2 points
C12_DispersaoNormalizada ==
  (lpc = "disp") =>
    /\ \A i \in DOMAIN janela_norm :
         janela_norm[i].X \in 0..100 /\ janela_norm[i].Y \in 0..100
    /\ ValOf(disp) >= 0
    /\ ValOf(disp) <= 10000
    /\ Len(janela_norm) < 2 => ValOf(disp) = 0

C12_Witness ==
  /\ lpc = "disp"
  /\ Len(janela_norm) = 2
  /\ ValOf(disp) > 0
  /\ ValOf(disp) < 10000

\* the k-th smallest of a sequence of integers, by counting
OrdInt(vals, k) ==
  CHOOSE v \in Range(vals) :
    /\ Cardinality({i \in DOMAIN vals : vals[i] < v}) < k
    /\ Cardinality({i \in DOMAIN vals : vals[i] <= v}) >= k

\* four times the quartile q of vals, from the order statistics
Quartil4(vals, q) ==
  LET pos == q * (Len(vals) - 1)
      a == OrdInt(vals, (pos \div 4) + 1)
  IN IF pos % 4 = 0 THEN 4 * a
     ELSE 4 * a + (pos % 4) * (OrdInt(vals, (pos \div 4) + 2) - a)

\* row i of df has col inside [Q1 - 1.5 IQR, Q3 + 1.5 IQR] of its subject
DentroDosLimites(df, i, col) ==
  LET vals == Coluna(Grupo(df, df[i].paciente_id), col)
      q1 == Quartil4(vals, 1)
      q3 == Quartil4(vals, 3)
  IN /\ 8 * df[i][col] >= 2 * q1 - 3 * (q3 - q1)
     /\ 8 * df[i][col] <= 2 * q3 + 3 * (q3 - q1)

DadosLimpos(df) ==
  \A i \in DOMAIN df : DentroDosLimites(df, i, "X") /\ DentroDosLimites(df, i, "Y")

\* C13: when every sample of every subject lies inside that subject's IQR
\* bounds on both axes, the outlier step returns the table it was given, and
\* filtering that result again changes nothing
C13_SemOutliersInalterado ==
  (LimpezaRan /\ DadosLimpos(ordenado)) =>
    /\ sem_outliers = ordenado
    /\ FiltrarOutliers(sem_outliers) = sem_outliers

C13_Witness ==
  /\ lpc = "limpo"
  /\ DadosLimpos(ordenado)
  /\ Len(ordenado) >= 4
  /\ Cardinality(PacientesDe(ordenado)) = 2
  /\ \E i, j \in DOMAIN ordenado :
       /\ ordenado[i].paciente_id = ordenado[j].paciente_id
       /\ ordenado[i].X # ordenado[j].X

\* the rows of g whose time no earlier row of g has
PrimeirosPorTempo(g) ==
  LET keep == [i \in DOMAIN g |-> \A j \in 1..(i - 1) : g[j].t # g[i].t]
  IN Filtrar(g, keep)

\* C14: after cleaning no two samples of a subject share a time: of the
\* samples that passed the outlier filter, each subject keeps, in time
\* order, exactly the first sample of every timestamp
C14_SemTempoDuplicado ==
  LimpezaRan =>
    \A pid \in PacienteIds :
      LET g == Grupo(limpo, pid)
      IN /\ g = PrimeirosPorTempo(Grupo(sem_outliers, pid))
         /\ \A i, j \in DOMAIN g : i < j => g[i].t < g[j].t

C14_Witness ==
  /\ lpc = "limpo"
  /\ Cardinality({i \in DOMAIN sem_outliers :
                    sem_outliers[i].paciente_id = 1 /\ sem_outliers[i].t = 80000}) >= 3
  /\ \E i \in DOMAIN limpo : limpo[i].paciente_id = 2 /\ limpo[i].t = 80000
  /\ Len(Grupo(limpo, 1)) = 1

\* C15: for every subject of a table, cleaning (respectively normalizing)
\* the whole table leaves for that subject exactly the rows and values that
\* cleaning (normalizing) the subject's rows alone gives
C15_UmOuMuitos ==
  NormRan =>
    \A pid \in PacienteIds :
      /\ Grupo(limpo, pid) = LimparEOutliersOp(Grupo(tabela, pid)).limpo
      /\ Grupo(norm, pid) = NormalizarCoordenadasOp(Grupo(limpo, pid))

C15_Witness ==
  /\ lpc = "norm"
  /\ Cardinality(PacientesDe(norm)) = 2
  /\ Len(sem_outliers) < Len(ordenado)
  /\ norm # NormalizarGrupo(limpo)

\* C16: per subject and axis every coordinate becomes (v - min) / (max - min)
\* (to the model's hundredth, rounded down), inside [0, 1], the minimum at 0
\* and the maximum at 1; on an axis without range every value becomes 0.5
NormalizadoCerto(i, col) ==
  LET vals == Coluna(Grupo(limpo, limpo[i].paciente_id), col)
      mn == OrdInt(vals, 1)
      mx == OrdInt(vals, Len(vals))
      v == limpo[i][col]
      w == norm[i][col]
  IN /\ w \in 0..100
     /\ IF mx - mn > 0
        THEN /\ w * (mx - mn) <= (v - mn) * 100
             /\ (v - mn) * 100 < (w + 1) * (mx - mn)
             /\ v = mn => w = 0
             /\ v = mx => w = 100
        ELSE w = 50

MaxMets == 2

METRICAS_COMPARAR ==
  <<"tempo_resposta_s", "n_sacadas", "tempo_medio_sacada_s", "n_fixacoes",
    "duracao_media_fix_s", "dispersao_area">>

\* rank of a metric name in the order of sort_values on "Metrica"
MetricaRank(m) ==
  CASE m = "dispersao_area" -> 1
    [] m = "duracao_media_fix_s" -> 2
    [] m = "n_fixacoes" -> 3
    [] m = "n_sacadas" -> 4
    [] m = "tempo_medio_sacada_s" -> 5
    [] m = "tempo_resposta_s" -> 6

RECURSIVE SortedSeqOf(_)
SortedSeqOf(S) ==
  IF S = {} THEN <<>>
  ELSE <<SetMin(S)>> \o SortedSeqOf(S \ {SetMin(S)})

RECURSIVE Flatten(_)
Flatten(ss) == IF ss = <<>> THEN <<>> ELSE Head(ss) \o Flatten(Tail(ss))

\* mets[mets["Stimuli"] == stim][m].dropna().values
Valores(tab, stim, m) ==
  LET DoEstimulo(r) == r.Stimuli = stim /\ ~IsNaN(r[m])
      rows == SelectSeq(tab, DoEstimulo)
  IN [i \in DOMAIN rows |-> ValOf(rows[i][m])]

\* round(float(np.mean(arr)), 6) if len(arr) > 0
Media(arr) ==
  IF Len(arr) > 0 THEN Some(RoundHalfEven(SumSeq(arr) * 1000, Len(arr))) ELSE NaN

\* np.std(arr, ddof=1) if len(arr) > 1: the square root of
\* sum((n x - S)^2) / (n^2 (n - 1)), S the sum of the n values
Desvio(arr) ==
  LET n == Len(arr)
      S == SumSeq(arr)
      quad == [i \in DOMAIN arr |-> (n * arr[i] - S) * (n * arr[i] - S)]
  IN IF n > 1 THEN Some(ISqrt(SumSeq(quad) \div (n * n * (n - 1)))) ELSE NaN

\* the U statistic of the first sample in millionths: a pair counts 1 when
\* the first value is larger and 1/2 when the two are equal
EstatisticaU(arr_c, arr_a) ==
  LET pares == [k \in 1..(Len(arr_c) * Len(arr_a)) |->
                  LET c == arr_c[((k - 1) \div Len(arr_a)) + 1]
                      a == arr_a[((k - 1) % Len(arr_a)) + 1]
                  IN IF c > a THEN 2 ELSE IF c = a THEN 1 ELSE 0]
  IN SumSeq(pares) * 500000

\* the p-value of a test that ran: a defined number whose value is not modelled
PValorDefinido == Some("p")

\* lines 988-997: the test runs when scipy was imported and both samples
\* have a value; a call that raises leaves both fields NaN
MannWhitney(arr_c, arr_a, sp) ==
  IF sp = "ok" /\ Len(arr_c) > 0 /\ Len(arr_a) > 0
  THEN [u |-> Some(EstatisticaU(arr_c, arr_a)), p |-> PValorDefinido]
  ELSE [u |-> NaN, p |-> NaN]

\* mutant: the pair skipped as soon as one of the groups has no value
SemValores_Algum(arr_c, arr_a) == Len(arr_c) = 0 \/ Len(arr_a) = 0

\* line 979: the pair is skipped when neither group has a value
SemValores(arr_c, arr_a) == Len(arr_c) = 0 /\ Len(arr_a) = 0

\* lines 975-1008: the rows appended for one stimulus and one metric
LinhasDe(ctrl, afa, sp, stim, m) ==
  LET arr_c == Valores(ctrl, stim, m)
      arr_a == Valores(afa, stim, m)
      mw == MannWhitney(arr_c, arr_a, sp)
  IN IF SemValores(arr_c, arr_a) THEN <<>>
     ELSE << [Stimuli |-> stim, Metrica |-> m,
              Controle_media |-> Media(arr_c), Controle_desvio |-> Desvio(arr_c),
              Afasico_media |-> Media(arr_a), Afasico_desvio |-> Desvio(arr_a),
              MannWhitney_U |-> mw.u, p_value |-> mw.p] >>

LinhaBefore(a, b) ==
  \/ a.Stimuli < b.Stimuli
  \/ a.Stimuli = b.Stimuli /\ MetricaRank(a.Metrica) < MetricaRank(b.Metrica)

\* sort_values(["Stimuli", "Metrica"]).reset_index(drop=True)
RECURSIVE OrdenarLinhas(_)
OrdenarLinhas(ls) ==
  IF ls = <<>> THEN <<>>
  ELSE LET n == Len(ls)
           rest == OrdenarLinhas(SubSeq(ls, 1, n - 1))
       IN LET k == Cardinality({i \in DOMAIN rest : ~LinhaBefore(ls[n], rest[i])})
          IN SubSeq(rest, 1, k) \o <<ls[n]>> \o SubSeq(rest, k + 1, Len(rest))

EstimulosDe(tab) == {tab[i].Stimuli : i \in DOMAIN tab}

\* lines 950-1030
EstatisticasInterGrupoOp(ctrl, afa, sp) ==
  IF ctrl = <<>> /\ afa = <<>> THEN <<>>
  ELSE LET stim_todos == SortedSeqOf(EstimulosDe(ctrl) \cup EstimulosDe(afa))
           nm == Len(METRICAS_COMPARAR)
           linhas == Flatten([k \in 1..(Len(stim_todos) * nm) |->
                       LinhasDe(ctrl, afa, sp,
                                stim_todos[((k - 1) \div nm) + 1],
                                METRICAS_COMPARAR[((k - 1) % nm) + 1])])
       IN OrdenarLinhas(linhas)

\* the metric rows a unit can give, without the columns the comparison does
\* not read: no sample in the window, a full trial, a trial with one saccade
\* segment and no valid fixation
MetsLinhas(stim) ==
  { [Stimuli |-> stim, tempo_resposta_s |-> NaN, n_sacadas |-> Some(0),
     tempo_medio_sacada_s |-> NaN, n_fixacoes |-> Some(0),
     duracao_media_fix_s |-> NaN, dispersao_area |-> Some(0)],
    [Stimuli |-> stim, tempo_resposta_s |-> Some(500), n_sacadas |-> Some(2000),
     tempo_medio_sacada_s |-> Some(20), n_fixacoes |-> Some(1000),
     duracao_media_fix_s |-> Some(150), dispersao_area |-> Some(12)],
    [Stimuli |-> stim, tempo_resposta_s |-> Some(801), n_sacadas |-> Some(1000),
     tempo_medio_sacada_s |-> Some(0), n_fixacoes |-> Some(0),
     duracao_media_fix_s |-> NaN, dispersao_area |-> Some(0)] }

\* processar_grupo_segmentado returns its table sorted by Stimuli
MetsTabelas ==
  UNION {UNION {{a \o b : a \in [1..k -> MetsLinhas(1)],
                          b \in [1..(n - k) -> MetsLinhas(2)]} : k \in 0..n} :
         n \in 0..MaxMets}

EstatisticasInterGrupo ==
  /\ epc = "input"
  /\ epc' = "fim"
  /\ inter' = EstatisticasInterGrupoOp(mets_ctrl, mets_afa, scipy)
  /\ csv_inter' = Some(inter')
  /\ UNCHANGED <<mets_ctrl, mets_afa, scipy>>
  /\ UNCHANGED foraDoInter

InitInterGrupo ==
  /\ mets_ctrl \in MetsTabelas
  /\ mets_afa \in MetsTabelas
  /\ scipy \in {"ok", "ausente", "erro"}
  /\ InitInter
  /\ UnidadeParada
  /\ LimpezaParada
  /\ CargaParada
  /\ GrupoParado
  /\ DtParado

NextInter == EstatisticasInterGrupo

SpecInter == InitInterGrupo /\ [][NextInter]_vars

\* ------------------------------------------------ inter-group properties
\* the row of the result for a stimulus and a metric, as a set
LinhasInter(stim, m) ==
  {i \in DOMAIN inter : inter[i].Stimuli = stim /\ inter[i].Metrica = m}

TemValor(tab, stim, m) ==
  \E i \in DOMAIN tab : tab[i].Stimuli = stim /\ ~IsNaN(tab[i][m])

\* the defined values of a metric for a stimulus, in millionths
ValoresMicro(tab, stim, m) ==
  {1000 * ValOf(tab[i][m]) : i \in {j \in DOMAIN tab : tab[j].Stimuli = stim /\ ~IsNaN(tab[j][m])}}

MetricasNomes == Range(METRICAS_COMPARAR)

\* C17: with exactly one group empty, every stimulus and metric for which
\* the other group has a defined value gets exactly one row, with that
\* group's mean defined (between the least and the largest of its values),
\* the empty group's mean and deviation undefined and U and p undefined;
\* without scipy every pair for which some group has a value still gets its
\* row, with U and p undefined
C17_UmGrupoVazio ==
  (epc = "fim") =>
    /\ (mets_ctrl = <<>> /\ mets_afa # <<>>) =>
         \A stim \in EstimulosDe(mets_afa), m \in MetricasNomes :
           TemValor(mets_afa, stim, m) =>
             /\ Cardinality(LinhasInter(stim, m)) = 1
             /\ \A i \in LinhasInter(stim, m) :
                  /\ ~IsNaN(inter[i].Afasico_media)
                  /\ ValOf(inter[i].Afasico_media) >= SetMin(ValoresMicro(mets_afa, stim, m))
                  /\ ValOf(inter[i].Afasico_media) <= SetMax(ValoresMicro(mets_afa, stim, m))
                  /\ inter[i].Controle_media = NaN
                  /\ inter[i].Controle_desvio = NaN
                  /\ inter[i].MannWhitney_U = NaN
                  /\ inter[i].p_value = NaN
    /\ (mets_afa = <<>> /\ mets_ctrl # <<>>) =>
         \A stim \in EstimulosDe(mets_ctrl), m \in MetricasNomes :
           TemValor(mets_ctrl, stim, m) =>
             /\ Cardinality(LinhasInter(stim, m)) = 1
             /\ \A i \in LinhasInter(stim, m) :
                  /\ ~IsNaN(inter[i].Controle_media)
                  /\ ValOf(inter[i].Controle_media) >= SetMin(ValoresMicro(mets_ctrl, stim, m))
                  /\ ValOf(inter[i].Controle_media) <= SetMax(ValoresMicro(mets_ctrl, stim, m))
                  /\ inter[i].Afasico_media = NaN
                  /\ inter[i].Afasico_desvio = NaN
                  /\ inter[i].MannWhitney_U = NaN
                  /\ inter[i].p_value = NaN
    /\ (scipy = "ausente") =>
         \A stim \in EstimulosDe(mets_ctrl) \cup EstimulosDe(mets_afa), m \in MetricasNomes :
           (TemValor(mets_ctrl, stim, m) \/ TemValor(mets_afa, stim, m)) =>
             /\ Cardinality(LinhasInter(stim, m)) = 1
             /\ \A i \in LinhasInter(stim, m) :
                  inter[i].MannWhitney_U = NaN /\ inter[i].p_value = NaN
    /\ csv_inter = Some(inter)

C17_Witness ==
  /\ epc = "fim"
  /\ scipy = "ok"
  /\ mets_ctrl = <<>>
  /\ Len(mets_afa) = 2
  /\ \E i \in DOMAIN inter :
       /\ inter[i].Metrica = "duracao_media_fix_s"
       /\ inter[i].Afasico_media = Some(150000)
       /\ inter[i].Afasico_desvio = NaN
       /\ inter[i].Controle_media = NaN
  /\ \E i \in DOMAIN inter :
       /\ inter[i].Metrica = "tempo_resposta_s"
       /\ inter[i].Afasico_media = Some(650500)
       /\ inter[i].Afasico_desvio = Some(212)

\* ------------------------------------------------------ carregar_pasta_csv
\* A file of the folder: what read_csv does with it ("ok", "ponto_virgula"
\* when only the second read succeeds, "falha" when both raise), its header
\* and its rows. A cell of a numeric column is Some(v) or NaN when the text
\* is not a number. Files are listed in name order and the subject id
\* extracted from the name of the i-th file is i.
MaxArquivos == 3

COLS_ESPERADAS == {"Key", "Timestamp", "X", "Y", "Stimuli"}

COLUNAS_SAIDA ==
  <<"Key", "Timestamp", "t_sec", "X", "Y", "Stimuli", "paciente_id", "grupo">>

\* lines 190-207: strip the header, then map it whatever its case
ColunaCanonica(c) ==
  CASE c \in {"Key", " key"} -> "Key"
    [] c \in {"Timestamp", "TIMESTAMP"} -> "Timestamp"
    [] c \in {"X", "x"} -> "X"
    [] c \in {"Y", "y "} -> "Y"
    [] c \in {"Stimuli", "stimulus"} -> "Stimuli"
    [] OTHER -> c

Faltando(arq) == COLS_ESPERADAS \ {ColunaCanonica(c) : c \in arq.cabecalho}

\* astype(str).str.strip()
Strip(st) ==
  CASE st = " trog1.png" -> "trog1.png"
    [] st = "TROG-2.PNG " -> "TROG-2.PNG"
    [] OTHER -> st

\* re.compile(r"^trog.*\.png$", re.IGNORECASE).match on the stripped text
PadraoValido(st) == st \in {"trog1.png", "TROG-2.PNG"}

\* to_numeric(errors="coerce").fillna(0)
Coerce(cell) == IF IsNaN(cell) THEN 0 ELSE ValOf(cell)

\* lines 216-246 for one row that passed the stimulus validation
LinhaCarregada(l, pid, grupo) ==
  [Key |-> Coerce(l.Key), Timestamp |-> Coerce(l.Timestamp),
   t_sec |-> Coerce(l.Timestamp), X |-> Coerce(l.X), Y |-> Coerce(l.Y),
   Stimuli |-> Strip(l.Stimuli), paciente_id |-> pid, grupo |-> grupo]

\* validar_stimuli, then the selected columns
LinhasValidas(arq, pid, grupo) ==
  LET Valida(l) == PadraoValido(Strip(l.Stimuli))
      ls == SelectSeq(arq.linhas, Valida)
  IN [i \in DOMAIN ls |-> LinhaCarregada(ls[i], pid, grupo)]

\* what one turn of the loop does with a file: "lido" with its table, or the
\* kind of report printed before the continue
ResultadoArquivo(arq, pid, grupo) ==
  IF arq.leitura = "falha" THEN [tipo |-> "erro_falha", df |-> <<>>]
  ELSE IF Faltando(arq) # {} THEN [tipo |-> "erro_colunas", df |-> <<>>]
  ELSE IF LinhasValidas(arq, pid, grupo) = <<>> THEN [tipo |-> "aviso_stimuli", df |-> <<>>]
  ELSE [tipo |-> "lido", df |-> LinhasValidas(arq, pid, grupo)]

\* mutant: the loop left at the first file that is skipped
AposPular_Aborta(i, n) == n + 1

\* continue: the loop goes on with the next file
AposPular(i, n) == i + 1

\* lines 167, 173, 252
TabelaVazia == [colunas |-> COLUNAS_SAIDA, linhas |-> <<>>]

LinhaTrog == [Key |-> Some(0), Timestamp |-> Some(80000), X |-> Some(10),
              Y |-> Some(10), Stimuli |-> "trog1.png"]
LinhaCoerce == [Key |-> NaN, Timestamp |-> Some(180000), X |-> NaN,
                Y |-> Some(13), Stimuli |-> " trog1.png"]
LinhaMaiuscula == [Key |-> Some(1), Timestamp |-> NaN, X |-> Some(14),
                   Y |-> Some(13), Stimuli |-> "TROG-2.PNG "]
LinhaInvalida == [Key |-> Some(1), Timestamp |-> Some(0), X |-> Some(14),
                  Y |-> Some(13), Stimuli |-> "desconhecido"]

Arquivos ==
  { [leitura |-> "falha", cabecalho |-> {}, linhas |-> <<>>],
    [leitura |-> "ok", cabecalho |-> {"Key", "Timestamp", "X", "Y"},
     linhas |-> <<LinhaTrog>>],
    [leitura |-> "ok", cabecalho |-> COLS_ESPERADAS, linhas |-> <<>>],
    [leitura |-> "ok", cabecalho |-> COLS_ESPERADAS, linhas |-> <<LinhaInvalida>>],
    [leitura |-> "ok", cabecalho |-> COLS_ESPERADAS, linhas |-> <<LinhaTrog>>],
    [leitura |-> "ponto_virgula",
     cabecalho |-> {" key", "TIMESTAMP", "x", "y ", "stimulus"},
     linhas |-> <<LinhaCoerce, LinhaInvalida, LinhaMaiuscula>>] }

Pastas == {NaN} \cup {Some(f) : f \in UNION {[1..n -> Arquivos] : n \in 0..MaxArquivos}}

\* lines 165-179: no folder or no CSV file in it gives the empty table
AbrirPasta ==
  /\ cpc = "input"
  /\ IF IsNaN(pasta) \/ ValOf(pasta) = <<>>
     THEN /\ cpc' = "fim"
          /\ resultado' = Some(TabelaVazia)
          /\ relatados' = <<[arquivo |-> 0, tipo |-> "aviso_pasta"]>>
     ELSE /\ cpc' = "arquivos"
          /\ UNCHANGED <<resultado, relatados>>
  /\ UNCHANGED <<pasta, i_arq, dfs>>
  /\ UNCHANGED foraDaCarga

\* lines 181-248: one turn of the loop over the files
ProcessarArquivo ==
  /\ cpc = "arquivos"
  /\ i_arq <= Len(ValOf(pasta))
  /\ LET r == ResultadoArquivo(ValOf(pasta)[i_arq], i_arq, "controle")
     IN IF r.tipo = "lido"
        THEN /\ dfs' = Append(dfs, r.df)
             /\ i_arq' = i_arq + 1
             /\ UNCHANGED relatados
        ELSE /\ relatados' = Append(relatados, [arquivo |-> i_arq, tipo |-> r.tipo])
             /\ i_arq' = AposPular(i_arq, Len(ValOf(pasta)))
             /\ UNCHANGED dfs
  /\ UNCHANGED <<pasta, cpc, resultado>>
  /\ UNCHANGED foraDaCarga

\* lines 250-257
ConcluirCarga ==
  /\ cpc = "arquivos"
  /\ i_arq > Len(ValOf(pasta))
  /\ cpc' = "fim"
  /\ IF dfs = <<>>
     THEN /\ resultado' = Some(TabelaVazia)
          /\ relatados' = Append(relatados, [arquivo |-> 0, tipo |-> "aviso_nenhum"])
     ELSE /\ resultado' = Some([colunas |-> COLUNAS_SAIDA, linhas |-> Flatten(dfs)])
          /\ UNCHANGED relatados
  /\ UNCHANGED <<pasta, i_arq, dfs>>
  /\ UNCHANGED foraDaCarga

InitCargaPasta ==
  /\ pasta \in Pastas
  /\ InitCarga
  /\ UnidadeParada
  /\ LimpezaParada
  /\ InterParado
  /\ GrupoParado
  /\ DtParado

NextCarga ==
  \/ AbrirPasta
  \/ ProcessarArquivo
  \/ ConcluirCarga

SpecCarga == InitCargaPasta /\ [][NextCarga]_vars

\* ---------------------------------------------------------- loader properties
\* a file that parses, has the five required columns under some spelling and
\* has a row whose stimulus is a trog*.png name
ArquivoBom(arq) ==
  /\ arq.leitura # "falha"
  /\ \A c \in COLS_ESPERADAS :
       \E h \in arq.cabecalho : ColunaCanonica(h) = c
  /\ \E i \in DOMAIN arq.linhas :
       arq.linhas[i].Stimuli \in {"trog1.png", " trog1.png", "TROG-2.PNG "}

LinhasBoas(arq) ==
  Cardinality({i \in DOMAIN arq.linhas :
                 arq.linhas[i].Stimuli \in {"trog1.png", " trog1.png", "TROG-2.PNG "}})

LinhasDoPaciente(tab, pid) ==
  Cardinality({i \in DOMAIN tab.linhas : tab.linhas[i].paciente_id = pid})

Relatado(i) == \E k \in DOMAIN relatados : relatados[k].arquivo = i

\* C19: when the load of a folder has returned, every file that does not
\* parse, lacks a required column or has no valid stimulus row was reported
\* and contributes no row, every other file contributes all its valid rows
\* whatever happened to the files around it, and with no valid file the
\* result is the empty table with the canonical columns
C19_FalhaLocal ==
  (cpc = "fim" /\ ~IsNaN(pasta)) =>
    LET arqs == ValOf(pasta)
        tab == ValOf(resultado)
    IN /\ tab.colunas = COLUNAS_SAIDA
       /\ \A i \in DOMAIN arqs :
            IF ArquivoBom(arqs[i])
            THEN LinhasDoPaciente(tab, i) = LinhasBoas(arqs[i]) /\ ~Relatado(i)
            ELSE LinhasDoPaciente(tab, i) = 0 /\ Relatado(i)
       /\ (\A i \in DOMAIN arqs : ~ArquivoBom(arqs[i])) => tab.linhas = <<>>
       /\ \A k \in DOMAIN tab.linhas : tab.linhas[k].paciente_id \in DOMAIN arqs

C19_Witness ==
  /\ cpc = "fim"
  /\ ~IsNaN(pasta)
  /\ Len(ValOf(pasta)) = 3
  /\ ArquivoBom(ValOf(pasta)[1])
  /\ ValOf(pasta)[2].leitura = "falha"
  /\ ArquivoBom(ValOf(pasta)[3])
  /\ Len(ValOf(resultado).linhas) = 3
  /\ relatados = <<[arquivo |-> 2, tipo |-> "erro_falha"]>>

\* ---------------------------------------------- processar_grupo_segmentado
\* A row of the group table carries paciente_id, Stimuli (1, 2 for trog1.png,
\* trog2.png), Key (no response pressed), t, X, Y. A metrics row carries its
\* keys, the rows given to metricas_paciente_por_estimulo and what the call
\* can return for them. eventos lists what the run did, in order.
MaxGrupo == 3

RowG(pid, stim, t, p) ==
  [paciente_id |-> pid, Stimuli |-> stim, Key |-> 0, t |-> t,
   X |-> p[1], Y |-> p[2]]

Evento(tipo, pid, stim) == [tipo |-> tipo, paciente_id |-> pid, Stimuli |-> stim]

\* df[df["Stimuli"] == stim]
DoEstimulo(df, stim) ==
  LET Test(r) == r.Stimuli = stim
  IN SelectSeq(df, Test)

\* Series.unique(): the values in order of first appearance
RECURSIVE Unicos(_)
Unicos(vals) ==
  IF vals = <<>> THEN <<>>
  ELSE LET n == Len(vals)
           rest == Unicos(SubSeq(vals, 1, n - 1))
       IN IF vals[n] \in Range(rest) THEN rest ELSE Append(rest, vals[n])

\* mutant: every subject of the group, with or without a sample of the stimulus
PacientesDoEstimulo_Todos(df, stim) == Unicos(Coluna(df, "paciente_id"))

\* line 792: df_est["paciente_id"].unique()
PacientesDoEstimulo(df, stim) == Unicos(Coluna(DoEstimulo(df, stim), "paciente_id"))

\* lines 692-696 and 794-798: m = metricas_paciente_por_estimulo(df) with its keys
LinhaMetricas(df, pid, stim) ==
  [paciente_id |-> pid, Stimuli |-> stim, unidade |-> df,
   metricas |-> MetricasResults(df)]

\* mutant: the metrics of a unit computed before its plots
EventosPacienteEstimulo_MetricasAntes(pid, stim) ==
  << Evento("metricas_individual", pid, stim),
     Evento("graficos_paciente_estimulo", pid, stim) >>

\* lines 682-692: the four plots of the unit, then its metrics
EventosPacienteEstimulo(pid, stim) ==
  << Evento("graficos_paciente_estimulo", pid, stim),
     Evento("metricas_individual", pid, stim) >>

\* lines 782-807: the group plots of a stimulus, the metrics of each subject
\* of the stimulus, the correlation plot
EventosGrupoEstimulo(df, stim) ==
  LET pids == PacientesDoEstimulo(df, stim)
  IN <<Evento("graficos_grupo", 0, stim)>>
     \o [i \in DOMAIN pids |-> Evento("metricas_grupo", pids[i], stim)]
     \o <<Evento("correlacao", 0, stim)>>

MetsBefore(a, b) ==
  \/ a.Stimuli < b.Stimuli
  \/ a.Stimuli = b.Stimuli /\ a.paciente_id < b.paciente_id

\* line 821: sort_values(["Stimuli", "paciente_id"]).reset_index(drop=True)
RECURSIVE OrdenarMets(_)
OrdenarMets(ms) ==
  IF ms = <<>> THEN <<>>
  ELSE LET n == Len(ms)
           rest == OrdenarMets(SubSeq(ms, 1, n - 1))
       IN LET k == Cardinality({i \in DOMAIN rest : ~MetsBefore(ms[n], rest[i])})
          IN SubSeq(rest, 1, k) \o <<ms[n]>> \o SubSeq(rest, k + 1, Len(rest))

\* lines 731-756: empty group returned at once; else normalize, write the
\* concatenated CSV, list the subjects
IniciarGrupo ==
  /\ gpc = "input"
  /\ IF df_grupo = <<>>
     THEN /\ gpc' = "fim"
          /\ mets_all' = Some(<<>>)
          /\ UNCHANGED <<df_grupo, pacientes, eventos>>
     ELSE /\ gpc' = "pacientes"
          /\ df_grupo' = NormalizarCoordenadasOp(df_grupo)
          /\ eventos' = <<Evento("csv_concat", 0, 0)>>
          /\ pacientes' = SortedSeqOf(PacientesDe(df_grupo))
          /\ UNCHANGED mets_all
  /\ UNCHANGED <<pac_estimulos, pac_rows, mets_individuais, estimulos, mets_rows>>
  /\ UNCHANGED foraDoGrupo

\* the table processar_paciente_individual works on: the subject's rows
\* normalized again (line 667)
DfPacNorm == NormalizarCoordenadasOp(Grupo(df_grupo, Head(pacientes)))

\* lines 758-759 and 657-671: the call for the next subject, up to its loop
IniciarPaciente ==
  /\ gpc = "pacientes"
  /\ pacientes # <<>>
  /\ gpc' = "paciente"
  /\ pac_estimulos' = SortedSeqOf(EstimulosDe(DfPacNorm))
  /\ pac_rows' = <<>>
  /\ UNCHANGED <<df_grupo, pacientes, mets_individuais, estimulos, mets_rows,
                 mets_all, eventos>>
  /\ UNCHANGED foraDoGrupo

\* lines 673-696: one turn of the subject's loop over its stimuli
PacienteEstimulo ==
  /\ gpc = "paciente"
  /\ pac_estimulos # <<>>
  /\ LET pid == Head(pacientes)
         stim == Head(pac_estimulos)
     IN /\ eventos' = eventos \o EventosPacienteEstimulo(pid, stim)
        /\ pac_rows' = Append(pac_rows,
                              LinhaMetricas(DoEstimulo(DfPacNorm, stim), pid, stim))
  /\ pac_estimulos' = Tail(pac_estimulos)
  /\ UNCHANGED <<df_grupo, gpc, pacientes, mets_individuais, estimulos, mets_rows,
                 mets_all>>
  /\ UNCHANGED foraDoGrupo

\* lines 698-717 and 760-761: consolidated plots, the subject's metrics CSV,
\* return to the loop over the subjects
ConcluirPaciente ==
  /\ gpc = "paciente"
  /\ pac_estimulos = <<>>
  /\ gpc' = "pacientes"
  /\ eventos' = eventos
       \o <<Evento("graficos_paciente_consolidado", Head(pacientes), 0)>>
       \o (IF pac_rows # <<>>
           THEN <<Evento("csv_paciente", Head(pacientes), 0)>> ELSE <<>>)
  /\ mets_individuais' =
       IF pac_rows # <<>> THEN Append(mets_individuais, pac_rows) ELSE mets_individuais
  /\ pacientes' = Tail(pacientes)
  /\ UNCHANGED <<df_grupo, pac_estimulos, pac_rows, estimulos, mets_rows, mets_all>>
  /\ UNCHANGED foraDoGrupo

\* lines 766-769: after the last subject, the stimuli of the group
IniciarEstimulos ==
  /\ gpc = "pacientes"
  /\ pacientes = <<>>
  /\ gpc' = "estimulos"
  /\ estimulos' = SortedSeqOf(EstimulosDe(df_grupo))
  /\ mets_rows' = <<>>
  /\ UNCHANGED <<df_grupo, pacientes, pac_estimulos, pac_rows, mets_individuais,
                 mets_all, eventos>>
  /\ UNCHANGED foraDoGrupo

\* lines 773-807: one turn of the loop over the stimuli of the group
GrupoEstimulo ==
  /\ gpc = "estimulos"
  /\ estimulos # <<>>
  /\ LET stim == Head(estimulos)
         df_est == DoEstimulo(df_grupo, stim)
         pids == PacientesDoEstimulo(df_grupo, stim)
     IN /\ eventos' = eventos \o EventosGrupoEstimulo(df_grupo, stim)
        /\ mets_rows' = mets_rows \o
             [i \in DOMAIN pids |-> LinhaMetricas(Grupo(df_est, pids[i]), pids[i], stim)]
  /\ estimulos' = Tail(estimulos)
  /\ UNCHANGED <<df_grupo, gpc, pacientes, pac_estimulos, pac_rows, mets_individuais,
                 mets_all>>
  /\ UNCHANGED foraDoGrupo

\* lines 809-827: sort the rows, write the metrics CSV, return
ConsolidarGrupo ==
  /\ gpc = "estimulos"
  /\ estimulos = <<>>
  /\ gpc' = "fim"
  /\ mets_all' = Some(OrdenarMets(mets_rows))
  /\ eventos' = Append(eventos, Evento("csv_metricas", 0, 0))
  /\ UNCHANGED <<df_grupo, pacientes, pac_estimulos, pac_rows, mets_individuais,
                 estimulos, mets_rows>>
  /\ UNCHANGED foraDoGrupo

\* the cleaned table of a group: the rows of a subject together, in time order,
\* no two at the same time
EstimulosGrupo == {1, 2}
AmostrasGrupo == EstimulosGrupo \X PointsTabela

MontarGrupo(a, b) ==
  [i \in DOMAIN a |-> RowG(1, a[i][1], (i - 1) * 80000, a[i][2])]
  \o [i \in DOMAIN b |-> RowG(2, b[i][1], (i - 1) * 80000, b[i][2])]

GrupoTabelas ==
  UNION {UNION {{MontarGrupo(a, b) : a \in [1..k -> AmostrasGrupo],
                                     b \in [1..(n - k) -> AmostrasGrupo]} : k \in 0..n} :
         n \in 0..MaxGrupo}

InitGrupoSegmentado ==
  /\ df_grupo \in GrupoTabelas
  /\ InitGrupo
  /\ UnidadeParada
  /\ LimpezaParada
  /\ InterParado
  /\ CargaParada
  /\ DtParado

NextGrupo ==
  \/ IniciarGrupo
  \/ IniciarPaciente
  \/ PacienteEstimulo
  \/ ConcluirPaciente
  \/ IniciarEstimulos
  \/ GrupoEstimulo
  \/ ConsolidarGrupo

SpecGrupo == InitGrupoSegmentado /\ [][NextGrupo]_vars

\* ------------------------------------------------------- group properties
EhMetricas(e) == e.tipo \in {"metricas_individual", "metricas_grupo"}
EhEscritaOuGrafico(e) == ~EhMetricas(e)

\* the (subject, stimulus) pairs with a sample in the group table
ParesDoGrupo == {<<df_grupo[i].paciente_id, df_grupo[i].Stimuli>> : i \in DOMAIN df_grupo}

Posicoes(tipo, pid, stim) ==
  {k \in DOMAIN eventos : eventos[k] = Evento(tipo, pid, stim)}

C20_UmaLinhaPorPar ==
  (gpc = "fim") =>
    LET tab == ValOf(mets_all)
    IN /\ {<<tab[i].paciente_id, tab[i].Stimuli>> : i \in DOMAIN tab} = ParesDoGrupo
       /\ Len(tab) = Cardinality(ParesDoGrupo)
       /\ \A i \in DOMAIN tab :
            Len(tab[i].unidade) =
              Cardinality({k \in DOMAIN df_grupo :
                             /\ df_grupo[k].paciente_id = tab[i].paciente_id
                             /\ df_grupo[k].Stimuli = tab[i].Stimuli})

C20_Witness ==
  /\ gpc = "fim"
  /\ ParesDoGrupo = {<<1, 1>>, <<1, 2>>, <<2, 2>>}
  /\ Len(ValOf(mets_all)) = 3
  /\ ValOf(mets_all)[2].paciente_id = 1
  /\ ValOf(mets_all)[2].Stimuli = 2

\* ------------------------------------------------ further per-unit properties
\* the window went through the normal case of rotular_ivt (3 samples or more)
IvtNormal == IvtRan /\ Len(explore_ivt) >= 3

\* C21: in the normal case a sample is labelled fixation exactly when its
\* speed is at most the threshold and saccade exactly when it is above; a
\* speed equal to the threshold is a fixation
C21_Rotulo ==
  IvtNormal =>
    \A i \in DOMAIN explore_ivt :
      /\ explore_ivt[i].label \in {"fix", "sac"}
      /\ explore_ivt[i].label = "fix" <=> FixLE(explore_ivt[i].speed, ValOf(vt))
      /\ explore_ivt[i].label = "sac" <=> FixLT(ValOf(vt), explore_ivt[i].speed)
      /\ explore_ivt[i].speed = ValOf(vt) => explore_ivt[i].label = "fix"

C21_Witness ==
  /\ IvtNormal
  /\ \E i \in DOMAIN explore_ivt :
       /\ explore_ivt[i].speed = ValOf(vt)
       /\ explore_ivt[i].speed # FixZero
       /\ explore_ivt[i].label = "fix"

\* ---------------------------------------------- rotular_ivt: the time delta
\* Lines 383-387 on one sample of the sorted window, with times in tenths of
\* a microsecond so that differences below 1e-6 s exist: Timestamp is read
\* with to_numeric and may carry a fraction of a microsecond.
MaxTempoFino == 14

\* 1e-6 s in tenths of a microsecond
EPS_FINO == 10 * EPS_DT

\* explore["t_sec"].diff(): undefined for the first sample
DiffT_Amostra(ant, atual) == IF IsNaN(ant) THEN NaN ELSE Some(atual - ValOf(ant))

\* mutant: only a delta of exactly 0 replaced, max(x, 1e-6) left out
DtDaAmostra_SoZero(ant, atual) ==
  LET d == DiffT_Amostra(ant, atual)
  IN IF IsNaN(d) \/ ValOf(d) = 0 THEN EPS_FINO ELSE ValOf(d)

\* lines 385-387: fillna(0.0), replace(0, 1e-6), max(x, 1e-6)
DtDaAmostra(ant, atual) ==
  LET d == DiffT_Amostra(ant, atual)
  IN DtClampEm(IF IsNaN(d) THEN 0 ELSE ValOf(d), EPS_FINO)

CalcularDt ==
  /\ dpc = "input"
  /\ dpc' = "fim"
  /\ dt_usado' = Some(DtDaAmostra(t_ant, t_atual))
  /\ UNCHANGED <<t_ant, t_atual>>
  /\ UNCHANGED foraDoDt

\* sort_values("t_sec") comes first: the preceding sample is never later
InitDt ==
  /\ t_atual \in 0..MaxTempoFino
  /\ t_ant \in {NaN} \cup {Some(t) : t \in 0..t_atual}
  /\ dpc = "input"
  /\ dt_usado = NaN
  /\ UnidadeParada
  /\ LimpezaParada
  /\ InterParado
  /\ CargaParada
  /\ GrupoParado

NextDt == CalcularDt

SpecDt == InitDt /\ [][NextDt]_vars

\* C22 as stated: for a sample that is not the first, the delta is the
\* difference to the preceding sample's time whenever that difference is
\* positive, and 1e-6 s whenever it is zero or negative
C22_Original ==
  (dpc = "fim" /\ ~IsNaN(t_ant)) =>
    /\ t_atual - ValOf(t_ant) > 0 => ValOf(dt_usado) = t_atual - ValOf(t_ant)
    /\ t_atual - ValOf(t_ant) <= 0 => ValOf(dt_usado) = 10

\* C22 amended: for a sample that is not the first, the delta is the
\* difference to the preceding sample's time whenever that difference is at
\* least 1e-6 s and is 1e-6 s whenever it is smaller, zero or positive; the
\* delta is never below 1e-6 s
C22_DeltaComPiso ==
  (dpc = "fim" /\ ~IsNaN(t_ant)) =>
    /\ t_atual - ValOf(t_ant) >= 10 => ValOf(dt_usado) = t_atual - ValOf(t_ant)
    /\ t_atual - ValOf(t_ant) < 10 => ValOf(dt_usado) = 10
    /\ ValOf(dt_usado) >= 10

C22_Witness ==
  /\ dpc = "fim"
  /\ t_ant = Some(3)
  /\ t_atual = 8
  /\ dt_usado = Some(10)

\* C23: every speed of the labelled window is a finite number, zero or
\* positive, never NaN and never infinite, also with repeated timestamps and
\* with rows that arrived out of time order; in the normal case the delta
\* the speed was divided by is positive
C23_VelocidadeFinita ==
  IvtRan =>
    \A i \in DOMAIN explore_ivt :
      /\ explore_ivt[i].speed # NaN
      /\ explore_ivt[i].speed # Inf
      /\ explore_ivt[i].speed.u >= 0
      /\ explore_ivt[i].speed.f \in 0..99999
      /\ Len(explore_ivt) >= 3 => explore_ivt[i].dt >= 1

C23_Witness ==
  /\ IvtNormal
  /\ \E i \in 2..Len(explore_ivt) :
       /\ explore_ivt[i].t = explore_ivt[i - 1].t
       /\ explore_ivt[i].dx # 0
       /\ explore_ivt[i].speed.u >= 50000

\* the durations of the saccade segments, 0 in the place of the others
DurSacadas(segs) ==
  [i \in DOMAIN segs |-> IF segs[i].label = "sac" THEN segs[i].dur ELSE 0]

NumSacadas(segs) == Cardinality({i \in DOMAIN segs : segs[i].label = "sac"})

\* C24: the saccade count of the metrics is the number of all the saccade
\* segments of the window, whatever their duration, and the mean saccade
\* duration is taken over all of them: a saccade segment of a single sample
\* is counted and enters the mean with duration 0
C24_Sacadas ==
  (MetsRan /\ explore # <<>>) =>
    /\ ValOf(mets).n_sacadas = NumSacadas(seg)
    /\ ValOf(mets).tempo_medio_sacada_s =
         IF NumSacadas(seg) = 0 THEN NaN
         ELSE Some(RoundHalfEven(SumSeq(DurSacadas(seg)), NumSacadas(seg) * 100))

\* two saccade segments, one of a single sample and one of 40 ms: counted 2,
\* mean 0.02 s
C24_Witness ==
  /\ MetsRan
  /\ \E i \in DOMAIN seg : seg[i].label = "sac" /\ seg[i].n = 1 /\ seg[i].dur = 0
  /\ \E i \in DOMAIN seg : seg[i].label = "sac" /\ seg[i].dur = 40000
  /\ ValOf(mets).n_sacadas = 2
  /\ ValOf(mets).tempo_medio_sacada_s = Some(200)

\* the positions of the labelled window that carry segment id k
AmostrasDoSeg(k) == {i \in DOMAIN explore_ivt : explore_ivt[i].seg_id = k}

\* C25: the segment table has exactly one row per segment id, in increasing
\* id order; each row describes one run of consecutive samples: it has at
\* least one sample, starts at the time and the coordinates of the run's first
\* sample, ends at the time and the coordinates of its last sample, and its
\* duration is the end time minus the start time, never negative
C25_UmaLinhaPorSegmento ==
  SegRan =>
    /\ Len(seg) = Cardinality({explore_ivt[i].seg_id : i \in DOMAIN explore_ivt})
    /\ \A k \in DOMAIN seg :
         LET idx == AmostrasDoSeg(k)
         IN /\ seg[k].seg_id = k
            /\ idx # {}
            /\ LET a == SetMin(idx)
                   b == SetMax(idx)
               IN /\ idx = a..b
                  /\ seg[k].n = b - a + 1
                  /\ seg[k].n >= 1
                  /\ seg[k].label = explore_ivt[a].label
                  /\ seg[k].t_start = explore_ivt[a].t
                  /\ seg[k].t_end = explore_ivt[b].t
                  /\ seg[k].x_start = explore_ivt[a].X
                  /\ seg[k].y_start = explore_ivt[a].Y
                  /\ seg[k].x_end = explore_ivt[b].X
                  /\ seg[k].y_end = explore_ivt[b].Y
                  /\ seg[k].dur = seg[k].t_end - seg[k].t_start
                  /\ seg[k].dur >= 0

\* several segments, one of them a run of two or more samples that moves
C25_Witness ==
  /\ SegRan
  /\ Len(seg) >= 3
  /\ \E k \in DOMAIN seg :
       /\ seg[k].n >= 2
       /\ seg[k].dur > 0
       /\ seg[k].x_start # seg[k].x_end

NumFixacoes(segs) == Cardinality({i \in DOMAIN segs : segs[i].label = "fix"})

\* C26: in every labelled window the first sample has speed 0 and is labelled
\* fixation, so segment 1 is a fixation segment; the labels of consecutive
\* segments alternate, and the saccade segments are never more than the
\* fixation segments (counted before the duration filter)
C26_ComecaEmFixacao ==
  (SegRan /\ explore_ivt # <<>>) =>
    /\ explore_ivt[1].speed = FixZero
    /\ explore_ivt[1].label = "fix"
    /\ explore_ivt[1].seg_id = 1
    /\ seg[1].seg_id = 1
    /\ seg[1].label = "fix"
    /\ \A k \in 1..(Len(seg) - 1) : seg[k].label # seg[k + 1].label
    /\ NumSacadas(seg) <= NumFixacoes(seg)

\* a window cut into fixation, saccade, fixation, saccade, fixation
C26_Witness ==
  /\ SegRan
  /\ Len(seg) = 5
  /\ explore_ivt[1].speed = FixZero
  /\ seg[2].label = "sac"
  /\ seg[4].label = "sac"
  /\ NumSacadas(seg) = 2
  /\ NumFixacoes(seg) = 3

NumAmostrasSac == Cardinality({i \in DOMAIN explore_ivt : explore_ivt[i].label = "sac"})

\* n - 1 - floor(0.85 * (n - 1))
MaxAmostrasSac(n) == n - 1 - ((PERCENTIL_LIMIAR_VEL * (n - 1)) \div 100)

VelocidadesIguais ==
  \A i, j \in DOMAIN explore_ivt : explore_ivt[i].speed = explore_ivt[j].speed

\* C27: in a window of n >= 3 samples at most n - 1 - floor(0.85 * (n - 1))
\* samples are labelled saccade; the samples are never all saccades, and a
\* window whose speeds are all equal has no saccade
C27_PoucasSacadas ==
  IvtNormal =>
    /\ NumAmostrasSac <= MaxAmostrasSac(Len(explore_ivt))
    /\ NumAmostrasSac < Len(explore_ivt)
    /\ VelocidadesIguais => NumAmostrasSac = 0

\* 15 samples, 3 of them saccades: the bound 14 - floor(11.9) = 3 is met
C27_Witness ==
  /\ IvtNormal
  /\ Len(explore_ivt) = 15
  /\ NumAmostrasSac = 3
  /\ MaxAmostrasSac(15) = 3

\* ---------------------------------------------- individual and group passes
RECURSIVE Concatenar(_)
Concatenar(tabs) ==
  IF tabs = <<>> THEN <<>> ELSE Head(tabs) \o Concatenar(Tail(tabs))

\* the rows of the per-subject metrics tables that belong to a pair
LinhasIndividuais(pid, stim) ==
  LET ind == Concatenar(mets_individuais)
  IN {k \in DOMAIN ind : ind[k].paciente_id = pid /\ ind[k].Stimuli = stim}

\* C28: normalizing the normalized table again returns the same coordinates,
\* for the whole group and for the rows of each subject; so, at the end of the
\* group processing, every (subject, stimulus) row of the group's metrics has
\* exactly one row in the subject's own metrics, computed from the same samples
\* and holding the same metrics
C28_NormalizarIdempotente ==
  (gpc = "fim" /\ df_grupo # <<>>) =>
    /\ NormalizarCoordenadasOp(df_grupo) = df_grupo
    /\ \A pid \in PacientesDe(df_grupo) :
         NormalizarCoordenadasOp(Grupo(df_grupo, pid)) = Grupo(df_grupo, pid)
    /\ \A i \in DOMAIN ValOf(mets_all) :
         LET g == ValOf(mets_all)[i]
             ind == Concatenar(mets_individuais)
             ks == LinhasIndividuais(g.paciente_id, g.Stimuli)
         IN /\ Cardinality(ks) = 1
            /\ \A k \in ks :
                 /\ ind[k].unidade = g.unidade
                 /\ ind[k].metricas = g.metricas

\* two subjects; a unit whose samples spread over the normalized square, with
\* a dispersion above 0 in both passes
C28_Witness ==
  /\ gpc = "fim"
  /\ Cardinality(PacientesDe(df_grupo)) = 2
  /\ \E i \in DOMAIN ValOf(mets_all) :
       LET g == ValOf(mets_all)[i]
           ind == Concatenar(mets_individuais)
       IN /\ Len(g.unidade) = 2
          /\ \E a, b \in DOMAIN g.unidade :
               g.unidade[a].X = 0 /\ g.unidade[b].X = 100
          /\ \A m \in g.metricas : m.dispersao_area > 0
          /\ \E k \in LinhasIndividuais(g.paciente_id, g.Stimuli) :
               \A m \in ind[k].metricas : m.dispersao_area > 0

====
